---- MODULE Spec2Model ----
(***************************************************************************)
(* Model of the gateway of runar-labs/rust-apps:                           *)
(*   common/gateway/src/service.rs  GatewayService (route registry,        *)
(*                                  find_route, extract_parameters, the    *)
(*                                  stub HTTP handler handle_request)      *)
(*   common/gateway/src/lib.rs      ROUTES, register_route, start_gateway, *)
(*                                  build_routes, Next::run,               *)
(*                                  CorsMiddleware, handle_http_request,   *)
(*                                  forward_to_gateway                     *)
(*                                                                         *)
(* A Rust String is a sequence of one-character strings, so that split,    *)
(* starts_with, trim_start_matches and ends_with are computed character by *)
(* character as the code computes them.                                    *)
(***************************************************************************)
EXTENDS Integers, Sequences, FiniteSets, TLC

VARIABLES
    ROUTES,    \* lib.rs:27       static mut ROUTES: Vec<RouteInfo>
    routes,    \* service.rs:53   GatewayService.routes (the Vec behind the Mutex)
    service,   \* service.rs:47,51 GatewayService.state and .running, and whether
               \*                  run() is serving
    gateway,   \* lib.rs:248-253  GatewayState of start_gateway, or NotStarted
    request,   \* the inbound request the operations are called with
    call,      \* the operation that returned last, and its result
    tasks,     \* service.rs:53   the Mutex of GatewayService.routes, and the tasks
               \*                  that build the table and look routes up
    ws,        \* lib.rs:148-151  WebSocketHandler.connections and the sockets
    chain,     \* lib.rs:100-127  the Next that is run, the stages waiting for
               \*                  their continuation, and what has been invoked
    auth,      \* auth/backend/src/lib.rs:54-58  AuthService: users and the two
               \*                  indexes, and the register calls under way
    profile    \* profile/backend/src/lib.rs:31-34  ProfileService: profiles and
               \*                  the index, and the calls under way

vars == <<ROUTES, routes, service, gateway, request, call, tasks, ws, chain,
          auth, profile>>

----------------------------------------------------------------------------
(* Bounds and input alphabets                                              *)

\* longest inbound path (in characters) handed to find_route
MaxPathLen == 3
\* most routes registered in ROUTES
MaxRoutes == 2
\* longest Origin header (in characters) of a request
MaxOriginLen == 3
\* most calls of WebSocketHandler::handle_connection
MaxConnections == 2
\* most messages a peer sends on one connection
MaxMessages == 2

\* the characters of paths and patterns: the separator, the parameter sigil,
\* and two letters that differ only in case
Alphabet == {"/", ":", "a", "A"}

\* the strings of at most n characters of the set chars
Strings(chars, n) == UNION {[1..k -> chars] : k \in 0..n}

----------------------------------------------------------------------------
(* String functions of the Rust standard library, as the code uses them    *)

\* str::split(sep): the pieces between separators, empty pieces included
RECURSIVE split(_, _)
split(s, sep) ==
    IF \A i \in 1..Len(s) : s[i] # sep
    THEN <<s>>
    ELSE LET i == CHOOSE j \in 1..Len(s) :
                      s[j] = sep /\ \A k \in 1..(j - 1) : s[k] # sep
         IN  <<SubSeq(s, 1, i - 1)>> \o split(SubSeq(s, i + 1, Len(s)), sep)

\* the closure |s| !s.is_empty() of the filters
not_empty(s) == Len(s) > 0

\* (the split without the filter)
split_path_unfiltered(path) == split(path, "/")

\* path.split('/').filter(|s| !s.is_empty()).collect()
split_path(path) == SelectSeq(split(path, "/"), not_empty)

\* str::starts_with(pat)
starts_with(s, pat) == Len(s) >= Len(pat) /\ SubSeq(s, 1, Len(pat)) = pat

\* str::ends_with(pat)
ends_with(s, pat) ==
    Len(s) >= Len(pat) /\ SubSeq(s, Len(s) - Len(pat) + 1, Len(s)) = pat

\* str::trim_start_matches(pat): every leading occurrence is removed
RECURSIVE trim_start_matches(_, _)
trim_start_matches(s, pat) ==
    IF Len(pat) > 0 /\ starts_with(s, pat)
    THEN trim_start_matches(SubSeq(s, Len(pat) + 1, Len(s)), pat)
    ELSE s

\* HashMap::insert: a later insert under the same key replaces the value
EmptyMap == [k \in {} |-> <<>>]
insert(m, k, v) == [x \in DOMAIN m \cup {k} |-> IF x = k THEN v ELSE m[x]]

----------------------------------------------------------------------------
(* service.rs: the route registry                                          *)

\* (the flags taken from the split before the empty pieces are dropped)
RouteEntry_flags_of_unfiltered(route_info, handler_parts) ==
    LET segments == split_path(route_info.path)
        pieces   == split_path_unfiltered(route_info.path)
        is_param == [i \in 1..Len(pieces) |-> starts_with(pieces[i], <<":">>)]
    IN  [method        |-> route_info.method,
         path_pattern  |-> route_info.path,
         service_name  |-> handler_parts[1],
         action_name   |-> handler_parts[2],
         path_segments |-> segments,
         is_parameter  |-> is_param,
         middleware    |-> route_info.middleware]

\* one RouteEntry of initialize_routes (service.rs:83-109)
RouteEntry(route_info, handler_parts) ==
    LET segments == split_path(route_info.path)
        is_param == [i \in 1..Len(segments) |-> starts_with(segments[i], <<":">>)]
    IN  [method        |-> route_info.method,
         path_pattern  |-> route_info.path,
         service_name  |-> handler_parts[1],
         action_name   |-> handler_parts[2],
         path_segments |-> segments,
         is_parameter  |-> is_param,
         middleware    |-> route_info.middleware]

\* (the entries pushed at the front of the Vec: the table in reverse order)
RECURSIVE collect_routes_reversed(_)
collect_routes_reversed(infos) ==
    IF infos = <<>> THEN <<>>
    ELSE LET route_info    == Head(infos)
             handler_parts == split(route_info.handler_name, ".")
         IN  IF Len(handler_parts) # 2
             THEN collect_routes_reversed(Tail(infos))
             ELSE collect_routes_reversed(Tail(infos))
                      \o <<RouteEntry(route_info, handler_parts)>>

\* the loop of initialize_routes over ROUTES (service.rs:82-118): a definition
\* whose handler name does not split into two parts is skipped
RECURSIVE collect_routes(_)
collect_routes(infos) ==
    IF infos = <<>> THEN <<>>
    ELSE LET route_info    == Head(infos)
             handler_parts == split(route_info.handler_name, ".")
         IN  IF Len(handler_parts) # 2
             THEN collect_routes(Tail(infos))
             ELSE <<RouteEntry(route_info, handler_parts)>>
                      \o collect_routes(Tail(infos))

\* extract_parameters (service.rs:129-142)
RECURSIVE extract_loop(_, _, _, _)
extract_loop(route, path_segments, i, params) ==
    IF i > Len(path_segments) THEN params
    ELSE IF i <= Len(route.is_parameter) /\ route.is_parameter[i]
         THEN extract_loop(route, path_segments, i + 1,
                  insert(params,
                         trim_start_matches(route.path_segments[i], <<":">>),
                         path_segments[i]))
         ELSE extract_loop(route, path_segments, i + 1, params)

extract_parameters(route, path) ==
    extract_loop(route, split_path(path), 1, EmptyMap)

\* char::to_ascii_lowercase, for the letters of Alphabet
to_lowercase(s) == [i \in 1..Len(s) |-> IF s[i] = "A" THEN "a" ELSE s[i]]

\* (the method test without the wildcard)
method_mismatch_no_wildcard(route, method) == route.method # method

\* the method test of find_route (service.rs:151)
method_mismatch(route, method) == route.method # method /\ route.method # "*"

\* (the count test with < for !=: a longer pattern passes)
count_mismatch_shorter_only(route, path_segments) ==
    Len(route.path_segments) < Len(path_segments)

\* the segment count test of find_route (service.rs:156)
count_mismatch(route, path_segments) ==
    Len(route.path_segments) # Len(path_segments)

\* (the segment test with the case of the letters ignored)
segment_mismatch_ignore_case(route, path_segments, i) ==
    /\ ~route.is_parameter[i]
    /\ to_lowercase(route.path_segments[i]) # to_lowercase(path_segments[i])

\* the segment test of find_route (service.rs:163)
segment_mismatch(route, path_segments, i) ==
    ~route.is_parameter[i] /\ route.path_segments[i] # path_segments[i]

\* the segment loop of find_route (service.rs:161-167)
RECURSIVE segments_match(_, _, _)
segments_match(route, path_segments, i) ==
    IF i > Len(path_segments) THEN TRUE
    ELSE IF segment_mismatch(route, path_segments, i)
         THEN FALSE
         ELSE segments_match(route, path_segments, i + 1)

\* Option<(RouteEntry, HashMap<String, String>)>
None == [found |-> FALSE]
Some(route, params) == [found |-> TRUE, route |-> route, params |-> params]

\* the loop of find_route over the table (service.rs:149-175)
RECURSIVE find_loop(_, _, _, _)
find_loop(table, method, path, i) ==
    IF i > Len(table) THEN None
    ELSE LET route         == table[i]
             path_segments == split_path(path)
         IN  IF method_mismatch(route, method)
             THEN find_loop(table, method, path, i + 1)
             ELSE IF count_mismatch(route, path_segments)
             THEN find_loop(table, method, path, i + 1)
             ELSE IF segments_match(route, path_segments, 1)
             THEN Some(route, extract_parameters(route, path))
             ELSE find_loop(table, method, path, i + 1)

\* (the table scanned from its last entry to its first)
RECURSIVE find_loop_reverse(_, _, _, _)
find_loop_reverse(table, method, path, i) ==
    IF i < 1 THEN None
    ELSE LET route         == table[i]
             path_segments == split_path(path)
         IN  IF method_mismatch(route, method)
                \/ count_mismatch(route, path_segments)
                \/ ~segments_match(route, path_segments, 1)
             THEN find_loop_reverse(table, method, path, i - 1)
             ELSE Some(route, extract_parameters(route, path))

find_route_last_match(table, method, path) ==
    find_loop_reverse(table, method, path, Len(table))

\* find_route (service.rs:145-176)
find_route(table, method, path) == find_loop(table, method, path, 1)

----------------------------------------------------------------------------
(* lib.rs: the gateway server                                               *)

\* Result<T>
Ok(value) == [ok |-> TRUE, value |-> value]
Err(error) == [ok |-> FALSE, error |-> error]

\* a Body is the format string that produced it and the text put in its hole
Body(fmt, arg) == [fmt |-> fmt, arg |-> arg]
EmptyBody == Body("", "")
ErrorFmt == "{\"error\":\"{}\"}"
RouteFmt == "{\"route\":\"{}\"}"

NoHeaders == [h \in {} |-> ""]
ContentTypeJson == insert(NoHeaders, "content-type", "application/json")

Response(status, headers, body) ==
    [status |-> status, headers |-> headers, body |-> body]

\* build_routes (lib.rs:301-330): one handler per (method, path) of ROUTES,
\* found again only under exactly that key
RECURSIVE build_routes_loop(_, _)
build_routes_loop(route_infos, map) ==
    IF route_infos = <<>> THEN map
    ELSE LET route_info == Head(route_infos)
             handler    == [route_path |-> route_info.path]
         IN  build_routes_loop(Tail(route_infos),
                 insert(map, <<route_info.method, route_info.path>>, handler))

build_routes(route_infos) == build_routes_loop(route_infos, EmptyMap)

\* build_middleware (lib.rs:333-343): the chain is the CORS stage alone
build_middleware(config) == <<[kind |-> "cors", config |-> config.cors]>>

\* the failure a route handler reports
UpstreamError == "upstream: connection refused"

\* A RouteHandler (lib.rs:298) is a closure returning Result<Response<Body>>.
\* The closure build_routes installs (lib.rs:312-324) answers 200 with the
\* route's path; `fails` is the other outcome the type admits, a handler that
\* returns an error. The trace lists the stages and handlers that ran.
route_handler(handler, fails) ==
    IF fails
    THEN [ok |-> FALSE, error |-> UpstreamError, trace |-> <<"handler">>]
    ELSE [ok |-> TRUE,
          response |-> Response(200, ContentTypeJson,
                                Body(RouteFmt, handler.route_path)),
          trace |-> <<"handler">>]

\* the closure of CorsMiddleware::is_origin_allowed (lib.rs:472-489)
origin_matches(allowed, origin) ==
    IF allowed = <<"*">> THEN TRUE
    ELSE IF allowed = origin THEN TRUE
    ELSE IF starts_with(allowed, <<"*", ".">>)
         THEN ends_with(origin, trim_start_matches(allowed, <<"*", ".">>))
         ELSE FALSE

\* CorsMiddleware::is_origin_allowed (lib.rs:469-490)
is_origin_allowed(config, origin) ==
    \E i \in 1..Len(config.allowed_origins) :
        origin_matches(config.allowed_origins[i], origin)

\* the condition of CorsMiddleware::process (lib.rs:508, 527)
cors_origin_allowed(config, origin) ==
    Len(origin) > 0 /\ is_origin_allowed(config, origin)

\* (the allow-credentials header added whatever the configuration)
allow_credentials_always(config, allowed, headers) ==
    IF allowed
    THEN insert(headers, "access-control-allow-credentials", "true")
    ELSE headers

\* the allow-credentials header of CorsMiddleware::process
\* (lib.rs:515-517, 531-533)
allow_credentials(config, allowed, headers) ==
    IF allowed /\ config.allow_credentials
    THEN insert(headers, "access-control-allow-credentials", "true")
    ELSE headers

\* (only a preflight of an allowed origin is answered by the stage)
is_preflight_of_allowed_origin(req, allowed) == req.method = "OPTIONS" /\ allowed

\* the test for a preflight request of CorsMiddleware::process (lib.rs:503)
is_preflight(req, allowed) == req.method = "OPTIONS"

\* the preflight answer of CorsMiddleware::process (lib.rs:504-520): status
\* 200, an empty body, and the headers of an allowed origin
cors_preflight(config, req) ==
    LET origin  == req.origin
        allowed == cors_origin_allowed(config, origin)
        h1 == IF allowed
              THEN insert(insert(insert(insert(NoHeaders,
                       "access-control-allow-origin", origin),
                       "access-control-allow-methods",
                       "GET, POST, PUT, DELETE, OPTIONS"),
                       "access-control-allow-headers",
                       "Content-Type, Authorization"),
                       "access-control-max-age", "86400")
              ELSE NoHeaders
        h2 == allow_credentials(config, allowed, h1)
    IN  [ok |-> TRUE, response |-> Response(200, h2, EmptyBody),
         trace |-> <<"cors">>]

\* (the error of the continuation answered with an empty 200)
cors_resume_suppresses(config, req, r) ==
    IF ~r.ok
    THEN [ok |-> TRUE, response |-> Response(200, NoHeaders, EmptyBody),
          trace |-> <<"cors">> \o r.trace]
    ELSE [r EXCEPT !.trace = <<"cors">> \o @]

\* CorsMiddleware::process with the result r of `next.run(req).await`
\* (lib.rs:524-537): an error is handed on by `?`, a response is given the
\* headers of an allowed origin
cors_resume(config, req, r) ==
    LET origin  == req.origin
        allowed == cors_origin_allowed(config, origin)
    IN  IF ~r.ok
        THEN [r EXCEPT !.trace = <<"cors">> \o @]
        ELSE LET h1 == IF allowed
                       THEN insert(r.response.headers,
                                "access-control-allow-origin", origin)
                       ELSE r.response.headers
                 h2 == allow_credentials(config, allowed, h1)
             IN  [ok |-> TRUE,
                  response |-> [r.response EXCEPT !.headers = h2],
                  trace |-> <<"cors">> \o r.trace]

RECURSIVE Next_run(_, _, _, _)

\* CorsMiddleware::process (lib.rs:495-538)
CorsMiddleware_process(config, req, next_middlewares, handler, fails) ==
    IF is_preflight(req, cors_origin_allowed(config, req.origin))
    THEN cors_preflight(config, req)
    ELSE cors_resume(config, req,
                     Next_run(next_middlewares, handler, req, fails))

split_last(middlewares) ==
    IF middlewares = <<>> THEN [some |-> FALSE]
    ELSE [some |-> TRUE, current |-> middlewares[Len(middlewares)],
          rest |-> SubSeq(middlewares, 1, Len(middlewares) - 1)]

\* <[_]>::split_first (lib.rs:117): the first stage and the others
split_first(middlewares) ==
    IF middlewares = <<>> THEN [some |-> FALSE]
    ELSE [some |-> TRUE, current |-> Head(middlewares),
          rest |-> Tail(middlewares)]

\* Next::run (lib.rs:116-126)
Next_run(middlewares, handler, req, fails) ==
    LET first == split_first(middlewares)
    IN  IF first.some
        THEN CorsMiddleware_process(first.current.config, req, first.rest,
                                    handler, fails)
        ELSE route_handler(handler, fails)

\* the closure error_response of handle_http_request (lib.rs:391-398)
error_response(status, message) ==
    Response(status, ContentTypeJson, Body(ErrorFmt, message))

\* (the error of the chain handed on to the caller, as `?` would)
chain_failed_propagate(r) == [ok |-> FALSE, error |-> r.error, trace |-> r.trace]

\* the arm Err(e) of handle_http_request (lib.rs:411-414)
chain_failed(r) ==
    [ok |-> TRUE,
     response |-> error_response(500, "Internal server error"),
     trace |-> r.trace]

\* handle_http_request (lib.rs:386-428)
handle_http_request(req, state, fails) ==
    LET key == <<req.method, req.path>>
    IN  IF key \in DOMAIN state.routes
        THEN LET r == Next_run(state.middlewares, state.routes[key], req, fails)
             IN  IF r.ok THEN r ELSE chain_failed(r)
        ELSE [ok |-> TRUE,
              response |-> error_response(404, "Route not found"),
              trace |-> <<>>]

\* the HTTP handler of GatewayService::run, handle_request (service.rs:329-344)
handle_request(req) ==
    [ok |-> TRUE,
     response |-> Response(404, NoHeaders, Body("{}", "Not found")),
     trace |-> <<>>]

\* GatewayRequestHandler::handle_request of every Gateway (lib.rs:548-574)
InvalidPathFormat == "Invalid path format, expected 'METHOD:PATH'"
gateway_handle_request(path, params) ==
    LET parts == split(path, ":")
    IN  IF Len(parts) # 2
        THEN Err(InvalidPathFormat)
        ELSE Ok([method |-> parts[1], endpoint |-> parts[2], params |-> params])

\* forward_to_gateway (lib.rs:431-457)
forward_to_gateway(req_path, body_params) ==
    LET r == gateway_handle_request(req_path, body_params)
    IN  IF r.ok
        THEN Ok(Response(200, ContentTypeJson, Body("{}", r.value)))
        ELSE Ok(Response(500, ContentTypeJson, Body(ErrorFmt, r.error)))

----------------------------------------------------------------------------
(* Inputs                                                                  *)

\* handler names: "s.a" names a service and an action, "sa" does not
ValidHandler == <<"s", ".", "a">>
BadHandler   == <<"s", "a">>

RouteInfo(method, path, handler_name) ==
    [method |-> method, path |-> path, handler_name |-> handler_name,
     middleware |-> "None"]

\* the route declarations the registry is fed with: a literal and a parameter
\* at the same position, a wildcard method, a repeated parameter name, a
\* pattern with doubled and trailing slashes, a malformed handler name
RouteInfos ==
    { RouteInfo("GET",  <<"/", "a", "/", ":", "a">>,      ValidHandler),
      RouteInfo("GET",  <<"/", "a", "/", "A">>,           ValidHandler),
      RouteInfo("*",    <<"/", ":", "a">>,                ValidHandler),
      RouteInfo("GET",  <<"/", ":", "a", "/", ":", "a">>, ValidHandler),
      RouteInfo("POST", <<"a", "/", "/">>,                ValidHandler),
      RouteInfo("GET",  <<"/", "a", "/", "A">>,           BadHandler) }

Methods == {"GET", "POST"}

\* the inbound paths find_route is called with: separators and letters
Paths == Strings(Alphabet \ {":"}, MaxPathLen)

----------------------------------------------------------------------------
(* State machine                                                           *)

NotStarted == [started |-> FALSE]

\* no task is building the table or looking a route up; the Mutex is free
NoTasks == [mutex |-> "free", waiters |-> <<>>]

\* WebSocketHandler::new (lib.rs:154-159): no connection, and no task spawned
NoWebSocket == [connections |-> [id \in {} |-> <<>>], loops |-> <<>>]

\* no Next has been made
NoChain == [pc |-> "idle"]

\* AuthService::new (auth/backend/src/lib.rs:62-68): the maps are empty; no
\* call of register is under way
NewAuthService ==
    [users |-> EmptyMap, username_index |-> EmptyMap, email_index |-> EmptyMap,
     register |-> EmptyMap]

\* ProfileService::new (profile/backend/src/lib.rs:38-43): the maps are empty;
\* no call is under way and no profile id has been drawn
NewProfileService ==
    [profiles |-> EmptyMap, user_profile_index |-> EmptyMap,
     calls |-> EmptyMap, drawn |-> 0]

\* GatewayService::new (service.rs:61-74)
NewService ==
    [state |-> "Stopped", running |-> FALSE, serving |-> FALSE,
     context |-> "None"]

\* register_route (lib.rs:30-34)
register_route(route) ==
    /\ Len(ROUTES) < MaxRoutes
    /\ ROUTES' = Append(ROUTES, route)
    /\ call' = [op |-> "register_route"]
    /\ UNCHANGED <<routes, service, gateway, request, tasks, ws, chain, auth, profile>>

\* GatewayService::initialize_routes (service.rs:77-126)
initialize_routes ==
    /\ routes' = collect_routes(ROUTES)
    /\ call' = [op |-> "initialize_routes", result |-> "Ok"]
    /\ UNCHANGED <<ROUTES, service, gateway, request, tasks, ws, chain, auth, profile>>

\* GatewayService::find_route (service.rs:145-176), called with the request
FindRoute ==
    /\ call' = [op |-> "find_route",
                result |-> find_route(routes, request.method, request.path)]
    /\ UNCHANGED <<ROUTES, routes, service, gateway, request, tasks, ws, chain, auth, profile>>

(* The route registry under one inbound (method, path): the request is drawn  *)
(* in the initial state, routes are registered and the table is built in any  *)
(* order, and find_route is called on whatever table the service holds.       *)
InitRoute ==
    /\ ROUTES = <<>>
    /\ routes = <<>>
    /\ service = NewService
    /\ gateway = NotStarted
    /\ request \in [method : Methods, path : Paths]
    /\ call = [op |-> "new"]
    /\ tasks = NoTasks
    /\ ws = NoWebSocket
    /\ chain = NoChain
    /\ auth = NewAuthService
    /\ profile = NewProfileService

NextRoute ==
    \/ \E route \in RouteInfos : register_route(route)
    \/ initialize_routes
    \/ FindRoute

SpecRoute == InitRoute /\ [][NextRoute]_vars

----------------------------------------------------------------------------
(* The HTTP side: start_gateway and GatewayService::run serve requests      *)

\* the route declarations of the serving gateway: a parameter, a literal and
\* a wildcard method
ServedRouteInfos ==
    { RouteInfo("GET", <<"/", ":", "a">>, ValidHandler),
      RouteInfo("GET", <<"/", "a">>,      ValidHandler),
      RouteInfo("*",   <<"/", "A">>,      ValidHandler) }

\* the paths of inbound HTTP requests begin with a slash
UriPaths == {p \in Strings(Alphabet, MaxPathLen) : Len(p) > 0 /\ p[1] = "/"}

HttpMethods == {"GET", "OPTIONS"}

\* the Origin header of a request; empty when the request carries none
Origins == {<<>>, <<"x", ".", "e">>}

CorsConfigs ==
    { [allowed_origins |-> <<<<"*", ".", "e">>>>, allow_credentials |-> TRUE],
      [allowed_origins |-> <<>>,                  allow_credentials |-> FALSE] }

\* start_gateway (lib.rs:243-287): the routes and the chain are built, the
\* address is parsed, and the server serves with the state built
start_gateway(config, addr_valid) ==
    /\ ~gateway.started
    /\ IF addr_valid
       THEN /\ gateway' = [started     |-> TRUE,
                           routes      |-> build_routes(ROUTES),
                           middlewares |-> build_middleware(config),
                           config      |-> config]
            /\ call' = [op |-> "start_gateway", result |-> "serving"]
       ELSE /\ gateway' = gateway
            /\ call' = [op |-> "start_gateway", result |-> "Invalid address"]
    /\ UNCHANGED <<ROUTES, routes, service, request, tasks, ws, chain, auth, profile>>

\* GatewayService::run (service.rs:216-253): the table is rebuilt, the address
\* is parsed, and the server serves with handle_request
run(addr_valid) ==
    /\ ~service.serving
    /\ routes' = collect_routes(ROUTES)
    /\ service' = [service EXCEPT !.serving = addr_valid]
    /\ call' = [op |-> "run",
                result |-> IF addr_valid THEN "serving" ELSE "Invalid address"]
    /\ UNCHANGED <<ROUTES, gateway, request, tasks, ws, chain, auth, profile>>

\* the server of start_gateway answers the request (lib.rs:274, 386-428)
HandleHttpRequest(fails) ==
    /\ gateway.started
    /\ call' = [op |-> "handle_http_request",
                result |-> handle_http_request(request, gateway, fails),
                handler_fails |-> fails]
    /\ UNCHANGED <<ROUTES, routes, service, gateway, request, tasks, ws, chain, auth, profile>>

\* the server of GatewayService::run answers the request (service.rs:237)
HandleRequest ==
    /\ service.serving
    /\ call' = [op |-> "handle_request", result |-> handle_request(request)]
    /\ UNCHANGED <<ROUTES, routes, service, gateway, request, tasks, ws, chain, auth, profile>>

\* forward_to_gateway is called with the request's path (lib.rs:431-457)
ForwardToGateway(body_params) ==
    /\ call' = [op |-> "forward_to_gateway",
                upstream |-> gateway_handle_request(request.path, body_params),
                result |-> forward_to_gateway(request.path, body_params)]
    /\ UNCHANGED <<ROUTES, routes, service, gateway, request, tasks, ws, chain, auth, profile>>

InitDispatch ==
    /\ ROUTES = <<>>
    /\ routes = <<>>
    /\ service = NewService
    /\ gateway = NotStarted
    /\ request \in [method : HttpMethods, path : UriPaths, origin : Origins]
    /\ call = [op |-> "new"]
    /\ tasks = NoTasks
    /\ ws = NoWebSocket
    /\ chain = NoChain
    /\ auth = NewAuthService
    /\ profile = NewProfileService

NextDispatch ==
    \/ \E route \in ServedRouteInfos : register_route(route)
    \/ \E cors \in CorsConfigs, addr_valid \in BOOLEAN :
           start_gateway([cors |-> cors], addr_valid)
    \/ \E addr_valid \in BOOLEAN : run(addr_valid)
    \/ \E fails \in BOOLEAN : HandleHttpRequest(fails)
    \/ HandleRequest
    \/ \E body_params \in {"None", "Some"} : ForwardToGateway(body_params)

SpecDispatch == InitDispatch /\ [][NextDispatch]_vars

(* The server of start_gateway alone *)
NextHttp ==
    \/ \E route \in ServedRouteInfos : register_route(route)
    \/ \E cors \in CorsConfigs, addr_valid \in BOOLEAN :
           start_gateway([cors |-> cors], addr_valid)
    \/ \E fails \in BOOLEAN : HandleHttpRequest(fails)
    \/ \E body_params \in {"None", "Some"} : ForwardToGateway(body_params)

SpecHttp == InitDispatch /\ [][NextHttp]_vars

----------------------------------------------------------------------------
(* The life of the route table: definitions are registered, the table is    *)
(* built by init and by run, the service is started and stopped, and routes *)
(* are looked up                                                            *)

\* handler names that do not name a service and an action: three parts, two
\* empty parts, an empty action
LongHandler  == <<"s", ".", "a", ".", "a">>
DotHandler   == <<".">>
EmptyAction  == <<"s", ".">>

\* the definitions registered: two valid ones, and one for each malformed
\* handler name
BuildRouteInfos ==
    { RouteInfo("GET", <<"/", "a">>, ValidHandler),
      RouteInfo("GET", <<"/", "A">>, ValidHandler),
      RouteInfo("GET", <<"/", "a">>, BadHandler),
      RouteInfo("GET", <<"/", "a">>, LongHandler),
      RouteInfo("GET", <<"/", "a">>, DotHandler),
      RouteInfo("GET", <<"/", "a">>, EmptyAction) }

BuildPaths == {<<"/", "a">>, <<"/", "A">>}

\* AbstractService::init of GatewayService (service.rs:285-298)
init ==
    /\ routes' = collect_routes(ROUTES)
    /\ service' = [service EXCEPT !.context = "Some", !.state = "Initialized"]
    /\ call' = [op |-> "init", result |-> "Ok"]
    /\ UNCHANGED <<ROUTES, gateway, request, tasks, ws, chain, auth, profile>>

\* AbstractService::start of GatewayService (service.rs:300-308)
start ==
    /\ service' = [service EXCEPT !.state = "Running", !.running = TRUE]
    /\ call' = [op |-> "start", result |-> "Ok"]
    /\ UNCHANGED <<ROUTES, routes, gateway, request, tasks, ws, chain, auth, profile>>

\* AbstractService::stop of GatewayService (service.rs:310-318)
stop ==
    /\ service' = [service EXCEPT !.state = "Stopped", !.running = FALSE]
    /\ call' = [op |-> "stop", result |-> "Ok"]
    /\ UNCHANGED <<ROUTES, routes, gateway, request, tasks, ws, chain, auth, profile>>

InitBuild ==
    /\ ROUTES = <<>>
    /\ routes = <<>>
    /\ service = NewService
    /\ gateway = NotStarted
    /\ request \in [method : {"GET"}, path : BuildPaths, origin : {<<>>}]
    /\ call = [op |-> "new"]
    /\ tasks = NoTasks
    /\ ws = NoWebSocket
    /\ chain = NoChain
    /\ auth = NewAuthService
    /\ profile = NewProfileService

NextBuild ==
    \/ \E route \in BuildRouteInfos : register_route(route)
    \/ initialize_routes
    \/ init
    \/ start
    \/ stop
    \/ \E addr_valid \in BOOLEAN : run(addr_valid)
    \/ \E addr_valid \in BOOLEAN :
           start_gateway([cors |-> [allowed_origins |-> <<>>,
                                    allow_credentials |-> FALSE]], addr_valid)
    \/ FindRoute

SpecBuild == InitBuild /\ [][NextBuild]_vars

----------------------------------------------------------------------------
(* The route table under concurrency: init and run build the table while    *)
(* requests look routes up. Each task advances one step at a time; a task   *)
(* that awaits the tokio Mutex of the table queues behind the tasks that    *)
(* asked before it (the Mutex is fair, first in first out).                 *)

\* the tasks that call initialize_routes, and the tasks that call find_route
Builders == {"init", "run"}
Finders  == {"f1", "f2"}

\* the definitions ROUTES holds when the service is constructed
ConcRouteInfos ==
    { RouteInfo("GET", <<"/", "a">>, ValidHandler),
      RouteInfo("GET", <<"/", ":", "a">>, ValidHandler),
      RouteInfo("GET", <<"/", "a">>, BadHandler) }

RouteLists(n) == UNION {[1..k -> ConcRouteInfos] : k \in 0..n}

\* one iteration of the loop of initialize_routes (service.rs:82-118): the
\* entry is pushed onto the local Vec `routes`
push_route(local, route_info) ==
    LET handler_parts == split(route_info.handler_name, ".")
    IN  IF Len(handler_parts) # 2
        THEN local
        ELSE Append(local, RouteEntry(route_info, handler_parts))

\* (every entry pushed is published at once: the loop fills the shared table)
shared_filled_during_collect(shared, local) == local

\* GatewayService.routes while initialize_routes collects (service.rs:78-118):
\* the loop fills a Vec of its own, the shared table is not touched
shared_during_collect(shared, local) == shared

\* self.routes.lock().await (service.rs:122, 146): the task queues for the Mutex
lock(t) == [tasks EXCEPT !.waiters = Append(@, t)]

\* the Mutex is granted to the task at the head of the queue
granted(t) ==
    /\ tasks.mutex = "free"
    /\ tasks.waiters # <<>>
    /\ Head(tasks.waiters) = t

\* initialize_routes is called (service.rs:78): let mut routes = Vec::new()
BuildBegin(b) ==
    /\ tasks.build[b].pc = "idle"
    /\ tasks' = [tasks EXCEPT !.build[b] = [pc |-> "collect", local |-> <<>>, i |-> 1]]
    /\ call' = [op |-> "initialize_routes", task |-> b, result |-> "running"]
    /\ UNCHANGED <<ROUTES, routes, service, gateway, request, ws, chain, auth, profile>>

\* one iteration of the loop over ROUTES (service.rs:82-118)
BuildCollect(b) ==
    /\ tasks.build[b].pc = "collect"
    /\ tasks.build[b].i <= Len(ROUTES)
    /\ LET local == push_route(tasks.build[b].local, ROUTES[tasks.build[b].i])
       IN  /\ tasks' = [tasks EXCEPT !.build[b].local = local,
                                      !.build[b].i = @ + 1]
           /\ routes' = shared_during_collect(routes, local)
    /\ UNCHANGED <<ROUTES, service, gateway, request, call, ws, chain, auth, profile>>

\* the loop is over: self.routes.lock().await (service.rs:122)
BuildLock(b) ==
    /\ tasks.build[b].pc = "collect"
    /\ tasks.build[b].i > Len(ROUTES)
    /\ tasks' = [lock(b) EXCEPT !.build[b].pc = "wait"]
    /\ UNCHANGED <<ROUTES, routes, service, gateway, request, call, ws, chain, auth, profile>>

\* the Mutex is acquired (service.rs:122)
BuildAcquire(b) ==
    /\ tasks.build[b].pc = "wait"
    /\ granted(b)
    /\ tasks' = [tasks EXCEPT !.mutex = b, !.waiters = Tail(@),
                              !.build[b].pc = "assign"]
    /\ UNCHANGED <<ROUTES, routes, service, gateway, request, call, ws, chain, auth, profile>>

\* *routes_lock = routes; Ok(()) and the guard is dropped (service.rs:123-126)
BuildAssign(b) ==
    /\ tasks.build[b].pc = "assign"
    /\ routes' = tasks.build[b].local
    /\ tasks' = [tasks EXCEPT !.mutex = "free", !.build[b].pc = "done"]
    /\ call' = [op |-> "initialize_routes", task |-> b, result |-> "Ok"]
    /\ UNCHANGED <<ROUTES, service, gateway, request, ws, chain, auth, profile>>

\* find_route is called: self.routes.lock().await (service.rs:146)
FindBegin(f) ==
    /\ tasks.find[f].pc = "idle"
    /\ tasks' = [lock(f) EXCEPT !.find[f].pc = "wait"]
    /\ UNCHANGED <<ROUTES, routes, service, gateway, request, call, ws, chain, auth, profile>>

\* the Mutex is acquired (service.rs:146)
FindAcquire(f) ==
    /\ tasks.find[f].pc = "wait"
    /\ granted(f)
    /\ tasks' = [tasks EXCEPT !.mutex = f, !.waiters = Tail(@),
                              !.find[f].pc = "scan"]
    /\ UNCHANGED <<ROUTES, routes, service, gateway, request, call, ws, chain, auth, profile>>

\* the table is scanned under the guard and find_route returns
\* (service.rs:147-176); `seen` is the table the scan read
FindScan(f) ==
    /\ tasks.find[f].pc = "scan"
    /\ tasks' = [tasks EXCEPT !.mutex = "free",
                              !.find[f] = [pc |-> "idle", seen |-> routes]]
    /\ call' = [op |-> "find_route", task |-> f,
                result |-> find_route(routes, request.method, request.path)]
    /\ UNCHANGED <<ROUTES, routes, service, gateway, request, ws, chain, auth, profile>>

InitConc ==
    /\ ROUTES \in RouteLists(MaxRoutes)
    /\ routes = <<>>
    /\ service = NewService
    /\ gateway = NotStarted
    /\ request = [method |-> "GET", path |-> <<"/", "a">>, origin |-> <<>>]
    /\ call = [op |-> "new"]
    /\ tasks = [mutex |-> "free", waiters |-> <<>>,
                build |-> [b \in Builders |-> [pc |-> "idle", local |-> <<>>, i |-> 1]],
                find  |-> [f \in Finders |-> [pc |-> "idle", seen |-> <<>>]]]
    /\ ws = NoWebSocket
    /\ chain = NoChain
    /\ auth = NewAuthService
    /\ profile = NewProfileService

NextConc ==
    \/ \E b \in Builders : BuildBegin(b)
    \/ \E b \in Builders : BuildCollect(b)
    \/ \E b \in Builders : BuildLock(b)
    \/ \E b \in Builders : BuildAcquire(b)
    \/ \E b \in Builders : BuildAssign(b)
    \/ \E f \in Finders : FindBegin(f)
    \/ \E f \in Finders : FindAcquire(f)
    \/ \E f \in Finders : FindScan(f)

\* the runtime polls a task that has been granted the Mutex, and a task that
\* holds the Mutex runs to its release without awaiting anything
FairConc ==
    /\ \A b \in Builders : WF_vars(BuildAcquire(b)) /\ WF_vars(BuildAssign(b))
    /\ \A f \in Finders : WF_vars(FindAcquire(f)) /\ WF_vars(FindScan(f))

SpecConc == InitConc /\ [][NextConc]_vars /\ FairConc

----------------------------------------------------------------------------
(* WebSocket connections: handle_connection stores the socket and spawns    *)
(* the task of the connection; the peer sends messages on the socket        *)

ConnectionIds == {"c1", "c2"}

\* serde_json::Value, as far as handle_message looks into it: a string, a
\* number, a boolean, or an object (a function from its keys to values)
JsonString(s) == [kind |-> "string", str |-> s]
JsonNumber(n) == [kind |-> "number", num |-> n]
JsonBool(b) == [kind |-> "bool", bool |-> b]
JsonObject(o) == [kind |-> "object", obj |-> o]
EmptyObject == [key \in {} |-> JsonBool(FALSE)]

\* the text of a message: the text of a JSON object, or text that is no JSON
Text(object) == [json |-> TRUE, value |-> object]
NotJson == [json |-> FALSE]

\* the messages a peer sends, by their "type"
WsMessages == { Text([type |-> JsonString("ping")]),
                Text([type |-> JsonString("other")]) }

\* WebSocketConnection::new (lib.rs:136-138) around a socket: `received` are
\* the messages the peer has sent and nothing has read, `sent` the messages
\* written to the socket, `open` whether the peer still holds its end
WebSocketConnection(id, socket) ==
    [id |-> id, socket |-> socket, open |-> TRUE,
     received |-> <<>>, sent |-> <<>>]

\* WebSocketConnection::send (lib.rs:140-144): the text of the value is
\* written to the socket; writing to a socket the peer has closed is an error
send(conn, data) ==
    IF conn.open
    THEN [result |-> Ok([sent |-> Text(data)]),
          conn |-> [conn EXCEPT !.sent = Append(@, Text(data))]]
    ELSE [result |-> Err("WebSocket send error"), conn |-> conn]

\* a task spawned by handle_connection holds the read guard of `connections`
\* while it sleeps (lib.rs:174-179)
read_guard_held == \E k \in 1..Len(ws.loops) : ws.loops[k].pc = "sleep"

\* WebSocketHandler::handle_connection (lib.rs:161-185): the connection is
\* inserted under the write guard (a connection of the same id is replaced)
\* and the task of the connection is spawned. The sockets are numbered in the
\* order they are handed over.
handle_connection(id) ==
    /\ Len(ws.loops) < MaxConnections
    /\ ~read_guard_held
    /\ ws' = [connections |->
                  insert(ws.connections, id,
                         WebSocketConnection(id, Len(ws.loops) + 1)),
              loops |-> Append(ws.loops, [id |-> id, pc |-> "loop"])]
    /\ call' = [op |-> "handle_connection", id |-> id,
                before |-> ws.connections]
    /\ UNCHANGED <<ROUTES, routes, service, gateway, request, tasks, chain, auth, profile>>

\* the peer sends a message: it waits on the socket to be read
PeerSends(id, message) ==
    /\ id \in DOMAIN ws.connections
    /\ ws.connections[id].open
    /\ Len(ws.connections[id].received) < MaxMessages
    /\ ws' = [ws EXCEPT !.connections[id].received = Append(@, message)]
    /\ call' = [op |-> "peer_sends", id |-> id]
    /\ UNCHANGED <<ROUTES, routes, service, gateway, request, tasks, chain, auth, profile>>

\* the peer closes its end of the socket. Nothing in lib.rs reads the socket
\* of a stored connection, so the close changes the socket and nothing else.
PeerCloses(id) ==
    /\ id \in DOMAIN ws.connections
    /\ ws.connections[id].open
    /\ ws' = [ws EXCEPT !.connections[id].open = FALSE]
    /\ call' = [op |-> "peer_closes", id |-> id]
    /\ UNCHANGED <<ROUTES, routes, service, gateway, request, tasks, chain, auth, profile>>

\* the top of the loop of the spawned task (lib.rs:173-182): the read guard
\* is taken; with the connection in the map the task sleeps, without it the
\* loop ends. Nothing is read from the socket.
LoopGet(k) ==
    /\ k \in 1..Len(ws.loops)
    /\ ws.loops[k].pc = "loop"
    /\ ws' = [ws EXCEPT !.loops[k].pc =
                  IF ws.loops[k].id \in DOMAIN ws.connections
                  THEN "sleep" ELSE "exited"]
    /\ UNCHANGED <<ROUTES, routes, service, gateway, request, call, tasks, chain, auth, profile>>

\* the sleep of one second is over (lib.rs:179): the guard is dropped and the
\* loop starts again
LoopWake(k) ==
    /\ k \in 1..Len(ws.loops)
    /\ ws.loops[k].pc = "sleep"
    /\ ws' = [ws EXCEPT !.loops[k].pc = "loop"]
    /\ UNCHANGED <<ROUTES, routes, service, gateway, request, call, tasks, chain, auth, profile>>

InitWs ==
    /\ ROUTES = <<>>
    /\ routes = <<>>
    /\ service = NewService
    /\ gateway = NotStarted
    /\ request = [method |-> "GET", path |-> <<"/">>, origin |-> <<>>]
    /\ call = [op |-> "new"]
    /\ tasks = NoTasks
    /\ ws = NoWebSocket
    /\ chain = NoChain
    /\ auth = NewAuthService
    /\ profile = NewProfileService

NextWs ==
    \/ \E id \in ConnectionIds : handle_connection(id)
    \/ \E id \in ConnectionIds, message \in WsMessages : PeerSends(id, message)
    \/ \E id \in ConnectionIds : PeerCloses(id)
    \/ \E k \in 1..MaxConnections : LoopGet(k)
    \/ \E k \in 1..MaxConnections : LoopWake(k)

\* the runtime polls the spawned tasks, and their timers fire
FairWs ==
    \A k \in 1..MaxConnections : WF_vars(LoopGet(k)) /\ WF_vars(LoopWake(k))

SpecWs == InitWs /\ [][NextWs]_vars /\ FairWs

----------------------------------------------------------------------------
(* handle_message, applied to a message received on a connection            *)

\* serde_json::from_str (lib.rs:191): text that is no JSON is an error
from_str(text) ==
    IF text.json THEN Ok(text.value) ELSE Err("expected value")

\* Value::get (lib.rs:194,205-207): the value under a key of the object
get(message, key) ==
    IF key \in DOMAIN message
    THEN [some |-> TRUE, value |-> message[key]]
    ELSE [some |-> FALSE]

\* and_then(|v| v.as_str()) (lib.rs:194,205,206): the string of a value that
\* is there and is a string
as_str(option) ==
    IF option.some /\ option.value.kind = "string"
    THEN [some |-> TRUE, value |-> option.value.str]
    ELSE [some |-> FALSE]

\* Option::unwrap_or (lib.rs:223)
unwrap_or(option, default) == IF option.some THEN option.value ELSE default

message_type_or_ping(message) ==
    [some |-> TRUE, value |-> unwrap_or(as_str(get(message, "type")), "ping")]

\* the type of a message (lib.rs:194)
message_type(message) == as_str(get(message, "type"))

\* the reply to a ping (lib.rs:200)
pong == [type |-> JsonString("pong")]

action_reply_untagged(action_id, params) ==
    [id |-> JsonString("unknown"), success |-> JsonBool(TRUE), data |-> params]

\* the reply to an action call (lib.rs:213-217): the parameters are echoed
action_reply(action_id, params) ==
    [id |-> JsonString(action_id), success |-> JsonBool(TRUE), data |-> params]

\* the reply to an invalid action call (lib.rs:222-229)
invalid_action_reply(action_id) ==
    [id |-> JsonString(unwrap_or(action_id, "unknown")),
     success |-> JsonBool(FALSE),
     error |-> JsonObject([message |-> JsonString("Invalid action request"),
                           code |-> JsonNumber(400)])]

\* `if let Some(conn) = connections.write().await.get_mut(id) { conn.send(..)? }`
\* (lib.rs:199-201,212-218,221-230): the reply goes to the connection of the
\* id when there is one; the error of send is the error of handle_message
send_to(connections, id, data) ==
    IF id \in DOMAIN connections
    THEN LET sent == send(connections[id], data)
         IN  [result |-> IF sent.result.ok THEN Ok([replied |-> TRUE])
                         ELSE sent.result,
              connections |-> [connections EXCEPT ![id] = sent.conn]]
    ELSE [result |-> Ok([replied |-> FALSE]), connections |-> connections]

\* WebSocketHandler::handle_message (lib.rs:187-240): its result and the
\* connections it leaves
handle_message(connections, id, text) ==
    LET parsed == from_str(text)
    IN  IF ~parsed.ok
        THEN [result |-> parsed, connections |-> connections]
        ELSE
        LET message == parsed.value
            type == message_type(message)
        IN  IF type.some /\ type.value = "ping"
            THEN send_to(connections, id, pong)
            ELSE IF type.some /\ type.value = "action"
            THEN LET action_id == as_str(get(message, "id"))
                     action == as_str(get(message, "action"))
                     params == get(message, "params")
                 IN  IF action_id.some /\ action.some /\ params.some
                     THEN send_to(connections, id,
                                  action_reply(action_id.value, params.value))
                     ELSE send_to(connections, id,
                                  invalid_action_reply(action_id))
            ELSE [result |-> Ok([replied |-> FALSE]),
                  connections |-> connections]

\* the arms of handle_message that take the write guard of `connections`
\* (lib.rs:199,212,221)
takes_write_guard(text) ==
    /\ text.json
    /\ message_type(text.value).some
    /\ message_type(text.value).value \in {"ping", "action"}

\* the JSON objects of the messages
ActionIds == {"i1", "i2"}

ActionObjects ==
    { [type |-> JsonString("action"), id |-> JsonString(i),
       action |-> JsonString("list"), params |-> JsonObject(EmptyObject)]
        : i \in ActionIds }
    \cup
    { [type |-> JsonString("action"), action |-> JsonString("list"),
       params |-> JsonObject(EmptyObject)],
      [type |-> JsonString("action"), id |-> JsonString("i1"),
       params |-> JsonObject(EmptyObject)],
      [type |-> JsonString("action"), id |-> JsonString("i1"),
       action |-> JsonString("list")],
      [type |-> JsonString("action"), id |-> JsonNumber(7),
       action |-> JsonString("list"), params |-> JsonObject(EmptyObject)],
      [type |-> JsonString("action"), id |-> JsonString("i2"),
       action |-> JsonNumber(7), params |-> JsonObject(EmptyObject)] }

OtherObjects ==
    { [type |-> JsonString("ping")],
      [type |-> JsonString("other")],
      [type |-> JsonNumber(7)],
      [id |-> JsonString("i1")] }

\* the texts handle_message is called with
MessageTexts ==
    {NotJson} \cup {Text(object) : object \in ActionObjects \cup OtherObjects}

\* handle_message is called with the text received on the connection of an id
HandleMessage(id) ==
    /\ "text" \in DOMAIN request
    /\ takes_write_guard(request.text) => ~read_guard_held
    /\ id \in DOMAIN ws.connections
          => Len(ws.connections[id].sent) < MaxMessages
    /\ LET handled == handle_message(ws.connections, id, request.text)
       IN  /\ ws' = [ws EXCEPT !.connections = handled.connections]
           /\ call' = [op |-> "handle_message", id |-> id,
                       result |-> handled.result, before |-> ws.connections]
    /\ UNCHANGED <<ROUTES, routes, service, gateway, request, tasks, chain, auth, profile>>

InitWsMessage ==
    /\ ROUTES = <<>>
    /\ routes = <<>>
    /\ service = NewService
    /\ gateway = NotStarted
    /\ request \in [text : MessageTexts]
    /\ call = [op |-> "new"]
    /\ tasks = NoTasks
    /\ ws = NoWebSocket
    /\ chain = NoChain
    /\ auth = NewAuthService
    /\ profile = NewProfileService

NextWsMessage ==
    \/ \E id \in ConnectionIds : handle_connection(id)
    \/ \E id \in ConnectionIds : PeerCloses(id)
    \/ \E id \in ConnectionIds : HandleMessage(id)
    \/ \E k \in 1..MaxConnections : LoopGet(k)
    \/ \E k \in 1..MaxConnections : LoopWake(k)

SpecWsMessage == InitWsMessage /\ [][NextWsMessage]_vars

----------------------------------------------------------------------------
(* The cross-origin stage: the chain of start_gateway under requests with   *)
(* any Origin header, ordinary and preflight                                *)

\* the routes served: the same path under GET and under OPTIONS, so that both
\* kinds of request reach the chain
CorsRouteInfos ==
    { RouteInfo("GET",     <<"/">>, ValidHandler),
      RouteInfo("OPTIONS", <<"/">>, ValidHandler) }

\* Origin headers: the strings over a letter of a host, a dot and the letter
\* of the domain "e" (<<>> when the request carries no Origin header)
OriginAlphabet == {"x", ".", "e"}
CorsOrigins == Strings(OriginAlphabet, MaxOriginLen)

\* allow-lists: none, all origins, an exact origin, a wildcard domain, and an
\* exact origin beside a wildcard domain
AllowLists ==
    { <<>>,
      << <<"*">> >>,
      << <<"x", ".", "e">> >>,
      << <<"*", ".", "e">> >>,
      << <<"e">>, <<"*", ".", "x">> >> }

CorsPolicies == [allowed_origins : AllowLists, allow_credentials : BOOLEAN]

\* CorsMiddleware::is_origin_allowed (lib.rs:469-490) of the server's stage,
\* asked about the request's origin
IsOriginAllowed ==
    /\ gateway.started
    /\ call' = [op |-> "is_origin_allowed",
                result |-> is_origin_allowed(gateway.config.cors, request.origin)]
    /\ UNCHANGED <<ROUTES, routes, service, gateway, request, tasks, ws, chain, auth, profile>>

InitCors ==
    /\ ROUTES = <<>>
    /\ routes = <<>>
    /\ service = NewService
    /\ gateway = NotStarted
    /\ request \in [method : HttpMethods, path : {<<"/">>}, origin : CorsOrigins]
    /\ call = [op |-> "new"]
    /\ tasks = NoTasks
    /\ ws = NoWebSocket
    /\ chain = NoChain
    /\ auth = NewAuthService
    /\ profile = NewProfileService

NextCors ==
    \/ \E route \in CorsRouteInfos : register_route(route)
    \/ \E cors \in CorsPolicies, addr_valid \in BOOLEAN :
           start_gateway([cors |-> cors], addr_valid)
    \/ IsOriginAllowed
    \/ \E fails \in BOOLEAN : HandleHttpRequest(fails)

SpecCors == InitCors /\ [][NextCors]_vars

----------------------------------------------------------------------------
(* Next::run step by step: a chain of stages around a route handler, each   *)
(* stage entered, calling its continuation or not, and resumed              *)

MaxStages == 2

\* the stages a chain is made of: CorsMiddleware is the Middleware of lib.rs
StageConfigs ==
    { [allowed_origins |-> << <<"*">> >>, allow_credentials |-> TRUE],
      [allowed_origins |-> <<>>,          allow_credentials |-> FALSE] }

Stages == {[kind |-> "cors", config |-> config] : config \in StageConfigs}

\* the slices Next::new is given: no stage, one, or more
Chains == UNION {[1..n -> Stages] : n \in 0..MaxStages}

\* Next::new (lib.rs:106-114) with a slice of stages and the handler of the
\* request's route, as handle_http_request makes it (lib.rs:407)
NextNew(middlewares, fails) ==
    /\ chain.pc \in {"idle", "done"}
    /\ chain' = [pc |-> "run",
                 middlewares |-> middlewares,
                 handler |-> [route_path |-> request.path],
                 fails |-> fails,
                 next |-> middlewares,
                 frames |-> <<>>,
                 log |-> <<>>]
    /\ call' = [op |-> "next_new"]
    /\ UNCHANGED <<ROUTES, routes, service, gateway, request, tasks, ws, auth, profile>>

short_circuit_runs_rest(rest) == [pc |-> "run", next |-> rest]

\* a stage that returns without calling `next.run` (lib.rs:520) drops the
\* Next it was given: Next::run returns what the stage returned (lib.rs:122)
short_circuit(rest) == [pc |-> "return", next |-> <<>>]

\* Next::run (lib.rs:116-126): the first stage of the slice is entered with a
\* Next of the others, or, with no stage left, the handler is called. The
\* stage entered (CorsMiddleware::process, lib.rs:495-524) answers a preflight
\* request itself and otherwise calls its continuation.
NextRun ==
    /\ chain.pc = "run"
    /\ LET first == split_first(chain.next)
       IN  IF first.some
           THEN LET stage == first.current
                    entered == Append(chain.log,
                                   [event |-> "process", stage |-> stage])
                IN  IF is_preflight(request,
                           cors_origin_allowed(stage.config, request.origin))
                    THEN LET r == cors_preflight(stage.config, request)
                         IN  chain' =
                                 [result |-> r,
                                  log |-> Append(entered,
                                      [event |-> "return", stage |-> stage,
                                       result |-> r])]
                                 @@ short_circuit(first.rest) @@ chain
                    ELSE chain' =
                             [next |-> first.rest,
                              frames |-> Append(chain.frames, stage),
                              log |-> Append(entered,
                                  [event |-> "next", stage |-> stage])]
                             @@ chain
           ELSE LET r == route_handler(chain.handler, chain.fails)
                IN  chain' = [pc |-> "return", result |-> r,
                              log |-> Append(chain.log,
                                  [event |-> "handler", result |-> r])]
                             @@ chain
    /\ UNCHANGED <<ROUTES, routes, service, gateway, request, call, tasks, ws, auth, profile>>

\* `next.run(req).await` has returned to the stage that called it last, which
\* goes on (lib.rs:524-537) and returns
ProcessResume ==
    /\ chain.pc = "return"
    /\ chain.frames # <<>>
    /\ LET stage == chain.frames[Len(chain.frames)]
           r == cors_resume(stage.config, request, chain.result)
       IN  chain' = [result |-> r,
                     frames |-> SubSeq(chain.frames, 1, Len(chain.frames) - 1),
                     log |-> Append(chain.log,
                         [event |-> "return", stage |-> stage, result |-> r])]
                    @@ chain
    /\ UNCHANGED <<ROUTES, routes, service, gateway, request, call, tasks, ws, auth, profile>>

\* the chain has returned to handle_http_request, which answers with the
\* response, or with its own for an error (lib.rs:409-415)
MatchResult ==
    /\ chain.pc = "return"
    /\ chain.frames = <<>>
    /\ chain' = [pc |-> "done"] @@ chain
    /\ call' = [op |-> "next_run",
                result |-> chain.result,
                response |-> IF chain.result.ok THEN chain.result
                             ELSE chain_failed(chain.result)]
    /\ UNCHANGED <<ROUTES, routes, service, gateway, request, tasks, ws, auth, profile>>

InitChain ==
    /\ ROUTES = <<>>
    /\ routes = <<>>
    /\ service = NewService
    /\ gateway = NotStarted
    /\ request \in [method : HttpMethods, path : {<<"/">>}, origin : Origins]
    /\ call = [op |-> "new"]
    /\ tasks = NoTasks
    /\ ws = NoWebSocket
    /\ chain = NoChain
    /\ auth = NewAuthService
    /\ profile = NewProfileService

NextChain ==
    \/ \E middlewares \in Chains, fails \in BOOLEAN : NextNew(middlewares, fails)
    \/ NextRun
    \/ ProcessResume
    \/ MatchResult

SpecChain == InitChain /\ [][NextChain]_vars

----------------------------------------------------------------------------
(* The server of start_gateway between upgrade requests and the others      *)

\* str::to_lowercase (lib.rs:350), on the letters of the headers below
str_to_lowercase(s) ==
    [i \in 1..Len(s) |->
        CASE s[i] = "W" -> "w"
          [] s[i] = "S" -> "s"
          [] OTHER -> s[i]]

\* str::contains (lib.rs:350)
contains(s, pattern) ==
    \E i \in 0..(Len(s) - Len(pattern)) :
        SubSeq(s, i + 1, i + Len(pattern)) = pattern

websocket == <<"w", "e", "b", "s", "o", "c", "k", "e", "t">>

\* is_websocket_request (lib.rs:346-352): there is an Upgrade header, it is
\* visible ASCII, and in lower case it contains "websocket"
is_websocket_request(req) ==
    /\ req.upgrade.some
    /\ req.upgrade.visible
    /\ contains(str_to_lowercase(req.upgrade.value), websocket)

\* handle_websocket_request (lib.rs:355-383): the id of the connection is the
\* query string, or a fresh one; the answer is 501 Not Implemented. The
\* WebSocketHandler it is given is not used.
handle_websocket_request(req) ==
    [ok |-> TRUE,
     id |-> IF req.query.some THEN req.query.value ELSE "ws-uuid",
     response |-> Response(501, NoHeaders,
                     Body("{}", "WebSocket support not fully implemented")),
     trace |-> <<>>]

\* the Upgrade header of a request: none, the protocol in two spellings,
\* another protocol, a list of protocols, and bytes that are no visible ASCII
UpgradeHeaders ==
    { [some |-> FALSE] }
    \cup
    { [some |-> TRUE, visible |-> TRUE, value |-> v] :
        v \in { websocket,
                <<"W", "e", "b", "S", "o", "c", "k", "e", "t">>,
                <<"h", "2", "c">>,
                <<"h", "2", "c", ",">> \o websocket } }
    \cup
    { [some |-> TRUE, visible |-> FALSE, value |-> websocket] }

\* the query string of a request: none, or the id the caller asks for
Queries == {[some |-> FALSE]} \cup {[some |-> TRUE, value |-> id] : id \in ConnectionIds}

\* the service closure of start_gateway (lib.rs:266-277): an upgrade request
\* goes to handle_websocket_request, any other to handle_http_request
Serve(fails) ==
    /\ gateway.started
    /\ IF is_websocket_request(request)
       THEN call' = [op |-> "serve", routed_to |-> "handle_websocket_request",
                     result |-> handle_websocket_request(request)]
       ELSE call' = [op |-> "serve", routed_to |-> "handle_http_request",
                     result |-> handle_http_request(request, gateway, fails)]
    /\ UNCHANGED <<ROUTES, routes, service, gateway, request, tasks, ws, chain, auth, profile>>

InitUpgrade ==
    /\ ROUTES = <<>>
    /\ routes = <<>>
    /\ service = NewService
    /\ gateway = NotStarted
    /\ request \in [method : {"GET"}, path : {<<"/">>}, origin : {<<>>},
                    upgrade : UpgradeHeaders, query : Queries]
    /\ call = [op |-> "new"]
    /\ tasks = NoTasks
    /\ ws = NoWebSocket
    /\ chain = NoChain
    /\ auth = NewAuthService
    /\ profile = NewProfileService

NextUpgrade ==
    \/ \E route \in CorsRouteInfos : register_route(route)
    \/ \E addr_valid \in BOOLEAN :
           start_gateway([cors |-> [allowed_origins |-> << <<"*">> >>,
                                    allow_credentials |-> FALSE]], addr_valid)
    \/ \E fails \in BOOLEAN : Serve(fails)

SpecUpgrade == InitUpgrade /\ [][NextUpgrade]_vars

----------------------------------------------------------------------------
(* AuthService::register, called by tasks that run side by side             *)

MaxUsers == 2

Registrants == {"r1", "r2"}

\* RegisterRequest (auth/backend/src/lib.rs:38-42), the password by its length
RegisterRequests ==
    [username : {"ann", "bob"}, email : {"a@x", "b@x"}, password_len : {7, 8}]

\* the state of the call of a task, none when the task has made no call
registering(r) ==
    IF r \in DOMAIN auth.register THEN auth.register[r] ELSE [pc |-> "done"]

\* register is called (lib.rs:105-109): a short password is refused. `taken`
\* notes whether the username or the email was in its index at the call.
RegisterBegin(r, req) ==
    /\ registering(r).pc = "done"
    /\ auth' = [auth EXCEPT !.register = insert(@, r,
           IF req.password_len < 8
           THEN [pc |-> "done", req |-> req, taken |-> FALSE,
                 result |-> Err("Password must be at least 8 characters long")]
           ELSE [pc |-> "check", req |-> req,
                 taken |-> \/ req.username \in DOMAIN auth.username_index
                           \/ req.email \in DOMAIN auth.email_index])]
    /\ call' = [op |-> "register", task |-> r]
    /\ UNCHANGED <<ROUTES, routes, service, gateway, request, tasks, ws, chain,
                   profile>>

\* the username and the email are looked up under the read guards of the two
\* indexes, and the guards are dropped (lib.rs:112-122)
RegisterCheck(r) ==
    /\ registering(r).pc = "check"
    /\ LET req == auth.register[r].req
       IN  auth' = [auth EXCEPT !.register[r] =
               IF req.username \in DOMAIN auth.username_index
               THEN [@ EXCEPT !.pc = "done"]
                        @@ [result |-> Err("Username already exists")]
               ELSE IF req.email \in DOMAIN auth.email_index
               THEN [@ EXCEPT !.pc = "done"]
                        @@ [result |-> Err("Email already exists")]
               ELSE [@ EXCEPT !.pc = "write"]]
    /\ UNCHANGED <<ROUTES, routes, service, gateway, request, call, tasks, ws,
                   chain, profile>>

\* the user is made with a fresh id and stored, with its two index entries,
\* under the three write guards; the token is made and the call returns
\* (lib.rs:124-146)
RegisterWrite(r) ==
    /\ registering(r).pc = "write"
    /\ Cardinality(DOMAIN auth.users) < MaxUsers
    /\ LET req == auth.register[r].req
           id  == Cardinality(DOMAIN auth.users) + 1
           user == [id |-> id, username |-> req.username, email |-> req.email]
       IN  auth' = [auth EXCEPT
               !.username_index = insert(@, user.username, user.id),
               !.email_index = insert(@, user.email, user.id),
               !.users = insert(@, user.id, user),
               !.register[r] = [@ EXCEPT !.pc = "done"]
                                   @@ [result |-> Ok(user)]]
    /\ UNCHANGED <<ROUTES, routes, service, gateway, request, call, tasks, ws,
                   chain, profile>>

InitAuth ==
    /\ ROUTES = <<>>
    /\ routes = <<>>
    /\ service = NewService
    /\ gateway = NotStarted
    /\ request = [method |-> "GET", path |-> <<"/">>, origin |-> <<>>]
    /\ call = [op |-> "new"]
    /\ tasks = NoTasks
    /\ ws = NoWebSocket
    /\ chain = NoChain
    /\ auth = NewAuthService
    /\ profile = NewProfileService

NextAuth ==
    \/ \E r \in Registrants, req \in RegisterRequests : RegisterBegin(r, req)
    \/ \E r \in Registrants : RegisterCheck(r)
    \/ \E r \in Registrants : RegisterWrite(r)

SpecAuth == InitAuth /\ [][NextAuth]_vars

----------------------------------------------------------------------------
(* ProfileService, called by tasks that run side by side                    *)

MaxProfiles == 2

ProfileCallers == {"p1", "p2"}

\* the users profiles are made for (auth_service::User), by their id
ProfileUsers == {[id |-> i, username |-> "ann"] : i \in 1..MaxUsers}

\* HashMap::remove
remove(m, k) == [x \in DOMAIN m \ {k} |-> m[x]]

\* the state of the call of a task, none when the task has made no call
calling(t) ==
    IF t \in DOMAIN profile.calls THEN profile.calls[t] ELSE [pc |-> "done"]

\* create_profile (profile/backend/src/lib.rs:49-74): under the write guards
\* of both maps, a user with an index entry is refused, another is given a
\* profile with a fresh id. (The id is drawn before the check, lib.rs:52; the
\* id of a refused call is dropped, and is not counted here.)
create_profile(t, user) ==
    /\ calling(t).pc = "done"
    /\ profile.drawn < MaxProfiles
    /\ LET id == profile.drawn + 1
           new == [id |-> id, user_id |-> user.id,
                   display_name |-> user.username]
           before == [profiles |-> profile.profiles,
                      user_profile_index |-> profile.user_profile_index]
       IN  IF user.id \in DOMAIN profile.user_profile_index
           THEN /\ profile' = [profile EXCEPT !.calls = insert(@, t,
                       [pc |-> "done", op |-> "create_profile"])]
                /\ call' = [op |-> "create_profile", task |-> t,
                            user_id |-> user.id,
                            result |-> Err("Profile already exists for user"),
                            before |-> before, after |-> before]
           ELSE /\ profile' = [profile EXCEPT
                       !.user_profile_index = insert(@, user.id, id),
                       !.profiles = insert(@, id, new),
                       !.drawn = id,
                       !.calls = insert(@, t,
                           [pc |-> "done", op |-> "create_profile"])]
                /\ call' = [op |-> "create_profile", task |-> t,
                            user_id |-> user.id,
                            result |-> Ok(new),
                            before |-> before,
                            after |-> [profiles |-> profile'.profiles,
                                       user_profile_index |->
                                           profile'.user_profile_index]]
    /\ UNCHANGED <<ROUTES, routes, service, gateway, request, tasks, ws, chain,
                   auth>>

\* the index lookup that get_profile and update_profile begin with, under the
\* read guard of the index (lib.rs:78-84, 95-101)
LookupBegin(t, op, user_id, rename) ==
    /\ calling(t).pc = "done"
    /\ profile' = [profile EXCEPT !.calls = insert(@, t,
           IF user_id \in DOMAIN profile.user_profile_index
           THEN [pc |-> op, op |-> op, rename |-> rename,
                 profile_id |-> profile.user_profile_index[user_id]]
           ELSE [pc |-> "done", op |-> op])]
    /\ call' = IF user_id \in DOMAIN profile.user_profile_index
               THEN [op |-> op, task |-> t, user_id |-> user_id]
               ELSE [op |-> op, task |-> t, user_id |-> user_id,
                     result |-> Err("Profile not found")]
    /\ UNCHANGED <<ROUTES, routes, service, gateway, request, tasks, ws, chain,
                   auth>>

\* get_profile, its second half (lib.rs:86-90): the profile of the id found
get_profile(t) ==
    /\ calling(t).pc = "get_profile"
    /\ LET id == profile.calls[t].profile_id
       IN  call' = [op |-> "get_profile", task |-> t,
                    result |-> IF id \in DOMAIN profile.profiles
                               THEN Ok(profile.profiles[id])
                               ELSE Err("Profile not found")]
    /\ profile' = [profile EXCEPT !.calls[t] =
                       [pc |-> "done", op |-> "get_profile"]]
    /\ UNCHANGED <<ROUTES, routes, service, gateway, request, tasks, ws, chain,
                   auth>>

\* update_profile, its second half (lib.rs:103-119): the profile of the id
\* found is changed under the write guard of the profiles
update_profile(t) ==
    /\ calling(t).pc = "update_profile"
    /\ LET id == profile.calls[t].profile_id
       IN  IF id \in DOMAIN profile.profiles
           THEN LET updated ==
                        IF profile.calls[t].rename
                        THEN [profile.profiles[id] EXCEPT
                                  !.display_name = "new"]
                        ELSE profile.profiles[id]
                IN  /\ profile' = [profile EXCEPT
                           !.profiles[id] = updated,
                           !.calls[t] = [pc |-> "done",
                                         op |-> "update_profile"]]
                    /\ call' = [op |-> "update_profile", task |-> t,
                                result |-> Ok(updated)]
           ELSE /\ profile' = [profile EXCEPT !.calls[t] =
                                   [pc |-> "done", op |-> "update_profile"]]
                /\ call' = [op |-> "update_profile", task |-> t,
                            result |-> Err("Profile not found")]
    /\ UNCHANGED <<ROUTES, routes, service, gateway, request, tasks, ws, chain,
                   auth>>

\* delete_profile, its first half (lib.rs:124-129): the index entry of the
\* user is removed under the write guard of the index, and the guard dropped
DeleteBegin(t, user_id) ==
    /\ calling(t).pc = "done"
    /\ IF user_id \in DOMAIN profile.user_profile_index
       THEN /\ profile' = [profile EXCEPT
                   !.user_profile_index = remove(@, user_id),
                   !.calls = insert(@, t,
                       [pc |-> "delete_profile", op |-> "delete_profile",
                        profile_id |-> profile.user_profile_index[user_id]])]
            /\ call' = [op |-> "delete_profile", task |-> t,
                        user_id |-> user_id]
       ELSE /\ profile' = [profile EXCEPT !.calls = insert(@, t,
                   [pc |-> "done", op |-> "delete_profile"])]
            /\ call' = [op |-> "delete_profile", task |-> t,
                        user_id |-> user_id,
                        result |-> Err("Profile not found")]
    /\ UNCHANGED <<ROUTES, routes, service, gateway, request, tasks, ws, chain,
                   auth>>

\* delete_profile, its second half (lib.rs:131-136): the profile is removed
\* under the write guard of the profiles
delete_profile(t) ==
    /\ calling(t).pc = "delete_profile"
    /\ LET id == profile.calls[t].profile_id
       IN  /\ profile' = [profile EXCEPT
                  !.profiles = remove(@, id),
                  !.calls[t] = [pc |-> "done", op |-> "delete_profile"]]
           /\ call' = [op |-> "delete_profile", task |-> t,
                       result |-> IF id \in DOMAIN profile.profiles
                                  THEN Ok("()")
                                  ELSE Err("Profile not found")]
    /\ UNCHANGED <<ROUTES, routes, service, gateway, request, tasks, ws, chain,
                   auth>>

InitProfile ==
    /\ ROUTES = <<>>
    /\ routes = <<>>
    /\ service = NewService
    /\ gateway = NotStarted
    /\ request = [method |-> "GET", path |-> <<"/">>, origin |-> <<>>]
    /\ call = [op |-> "new"]
    /\ tasks = NoTasks
    /\ ws = NoWebSocket
    /\ chain = NoChain
    /\ auth = NewAuthService
    /\ profile = NewProfileService

NextProfile ==
    \/ \E t \in ProfileCallers, user \in ProfileUsers : create_profile(t, user)
    \/ \E t \in ProfileCallers, user \in ProfileUsers,
          op \in {"get_profile", "update_profile"}, rename \in BOOLEAN :
           LookupBegin(t, op, user.id, rename)
    \/ \E t \in ProfileCallers : get_profile(t)
    \/ \E t \in ProfileCallers : update_profile(t)
    \/ \E t \in ProfileCallers, user \in ProfileUsers : DeleteBegin(t, user.id)
    \/ \E t \in ProfileCallers : delete_profile(t)

SpecProfile == InitProfile /\ [][NextProfile]_vars

----------------------------------------------------------------------------
(* What the properties of the route registry are stated with: the segments  *)
(* of a path read off its characters, without split or filter.              *)

\* the positions at which a segment of p starts
SegStarts(p) == {i \in 1..Len(p) : p[i] # "/" /\ (i = 1 \/ p[i - 1] = "/")}

\* the last position of the segment that starts at i
SegEnd(p, i) ==
    CHOOSE j \in i..Len(p) :
        /\ \A k \in i..j : p[k] # "/"
        /\ (j = Len(p) \/ p[j + 1] = "/")

\* the non-empty segments of p, in order
SegmentsOf(p) ==
    LET S      == SegStarts(p)
        nth(k) == CHOOSE i \in S : Cardinality({j \in S : j < i}) = k - 1
    IN  [k \in 1..Cardinality(S) |-> SubSeq(p, nth(k), SegEnd(p, nth(k)))]

\* the segments of every path and every pattern of the model
\* (f @@ g makes the table of f once, instead of SegmentsOf at every use)
PathSegments ==
    [p \in Paths \cup UriPaths
            \cup {route.path : route \in RouteInfos \cup ServedRouteInfos}
        |-> SegmentsOf(p)] @@ [p \in {} |-> <<>>]

\* the paths that differ from p only in leading, trailing or doubled slashes
SlashVariants ==
    [p \in Paths |-> {q \in Paths : PathSegments[q] = PathSegments[p]}]
        @@ [p \in {} |-> {}]

\* the variant of p without any empty segment: its segments joined by slashes
Canonical ==
    [p \in Paths |->
        CHOOSE q \in SlashVariants[p] :
            \A r \in SlashVariants[p] : Len(q) <= Len(r)]
        @@ [p \in {} |-> <<>>]

IsParam(seg) == seg[1] = ":"
IsLiteral(seg) == seg[1] # ":"

\* the pattern of a table entry matches the path, position by position
PathMatches(route, path) ==
    LET pat == PathSegments[route.path_pattern]
        seg == PathSegments[path]
    IN  /\ Len(pat) = Len(seg)
        /\ \A i \in 1..Len(pat) : IsLiteral(pat[i]) => pat[i] = seg[i]

MethodMatches(route, method) == route.method = method \/ route.method = "*"

RouteMatches(route, method, path) ==
    MethodMatches(route, method) /\ PathMatches(route, path)

Looked == call.op = "find_route"
Found == Looked /\ call.result.found

----------------------------------------------------------------------------
(* Claims about find_route                                                   *)

\* C1: find_route returns the first route of the table, in registration
\* order, that matches the method and the path, and None only when no route
\* of the table matches.
C1_FirstMatchWins ==
    Looked =>
        LET M == {i \in 1..Len(routes) :
                      RouteMatches(routes[i], request.method, request.path)}
        IN  IF M = {}
            THEN ~call.result.found
            ELSE /\ call.result.found
                 /\ \E i \in M : /\ \A j \in M : i <= j
                                  /\ call.result.route = routes[i]

\* two different routes of the table match the request (a literal and a
\* parameter at the same position) and find_route has answered
C1_Witness ==
    /\ Found
    /\ Len(routes) = 2
    /\ routes[1] # routes[2]
    /\ routes[1].path_pattern # routes[2].path_pattern
    /\ RouteMatches(routes[1], request.method, request.path)
    /\ RouteMatches(routes[2], request.method, request.path)

\* C3: a route whose pattern has as many segments as the path and differs
\* from it at a literal position (compared case-sensitively) is never the
\* route find_route returns.
C3_LiteralMismatchNeverMatches ==
    Found =>
        \A i \in 1..Len(routes) :
            LET pat == PathSegments[routes[i].path_pattern]
                seg == PathSegments[request.path]
            IN  (/\ Len(pat) = Len(seg)
                 /\ \E k \in 1..Len(pat) : IsLiteral(pat[k]) /\ pat[k] # seg[k])
                => call.result.route # routes[i]

\* find_route answered with the second route while the first, of the right
\* method and length, differs from the path in the case of a literal only
C3_Witness ==
    /\ Found
    /\ Len(routes) = 2
    /\ call.result.route = routes[2]
    /\ MethodMatches(routes[1], request.method)
    /\ LET pat == PathSegments[routes[1].path_pattern]
           seg == PathSegments[request.path]
       IN  /\ Len(pat) = Len(seg)
           /\ \E k \in 1..Len(pat) :
                  /\ IsLiteral(pat[k])
                  /\ pat[k] # seg[k]
                  /\ to_lowercase(pat[k]) = to_lowercase(seg[k])

\* C4: the route find_route returns has exactly as many segments as the path
\* has non-empty segments; a route with more or fewer is never returned.
C4_SegmentCountsEqual ==
    Found =>
        /\ Len(PathSegments[call.result.route.path_pattern])
               = Len(PathSegments[request.path])
        /\ \A i \in 1..Len(routes) :
               Len(PathSegments[routes[i].path_pattern])
                   # Len(PathSegments[request.path])
               => call.result.route # routes[i]

\* find_route passed over a route of the right method whose pattern is longer
\* than the path and agrees with the path on the segments the path has
C4_Witness ==
    /\ Found
    /\ Len(routes) = 2
    /\ call.result.route = routes[2]
    /\ MethodMatches(routes[1], request.method)
    /\ LET pat == PathSegments[routes[1].path_pattern]
           seg == PathSegments[request.path]
       IN  /\ Len(pat) > Len(seg)
           /\ \A k \in 1..Len(seg) : IsLiteral(pat[k]) => pat[k] = seg[k]

\* C5: the parameter map of the returned route binds the name of every
\* parameter of the pattern (the text after the sigil) to the path segment at
\* the parameter's position, and binds nothing else.
C5_ParamsBoundByPosition ==
    Found =>
        LET pat    == PathSegments[call.result.route.path_pattern]
            seg    == PathSegments[request.path]
            params == call.result.params
        IN  /\ \A i \in 1..Len(pat) :
                   IsParam(pat[i]) =>
                       /\ Tail(pat[i]) \in DOMAIN params
                       /\ params[Tail(pat[i])] = seg[i]
            /\ DOMAIN params = {Tail(pat[i]) : i \in {k \in 1..Len(pat) : IsParam(pat[k])}}

\* C6: the returned route declares the inbound method or the wildcard; a
\* route of another method is never returned; and a wildcard route whose
\* pattern matches the path makes find_route answer for every inbound method.
C6_MethodExactOrWildcard ==
    Looked =>
        /\ call.result.found =>
               /\ call.result.route.method \in {request.method, "*"}
               /\ \A i \in 1..Len(routes) :
                      routes[i].method \notin {request.method, "*"}
                      => call.result.route # routes[i]
        /\ (\E i \in 1..Len(routes) :
                routes[i].method = "*" /\ PathMatches(routes[i], request.path))
           => call.result.found

\* find_route passed over a route of another method whose pattern matches
\* and answered with a wildcard route
C6_Witness ==
    /\ Found
    /\ Len(routes) = 2
    /\ routes[1].method \notin {request.method, "*"}
    /\ PathMatches(routes[1], request.path)
    /\ call.result.route = routes[2]
    /\ routes[2].method = "*"

\* C7: empty segments are discarded from the pattern at build and from the
\* path at lookup and at extraction: every table entry holds the non-empty
\* segments of its pattern, and find_route gives for the request's path the
\* route and the bindings it gives for that path without its leading,
\* trailing and doubled slashes (so any two paths that differ only in such
\* slashes get the same result).
C7_EmptySegmentsDiscarded ==
    /\ \A i \in 1..Len(routes) :
           routes[i].path_segments = PathSegments[routes[i].path_pattern]
    /\ Looked =>
           find_route(routes, request.method, Canonical[request.path])
               = call.result

\* find_route bound a parameter for a path with a leading, a doubled or a
\* trailing slash, and some other path has the same segments
C7_Witness ==
    /\ Found
    /\ call.result.params # EmptyMap
    /\ \E k \in 1..Len(split(request.path, "/")) :
           split(request.path, "/")[k] = <<>>
    /\ Canonical[request.path] # request.path

----------------------------------------------------------------------------
(* Claims about the dispatch of HTTP requests                                *)

Dispatched == call.op \in {"handle_http_request", "handle_request"}

\* the routes the dispatcher that answered was built from
DispatchTable ==
    IF call.op = "handle_http_request"
    THEN {[method |-> key[1], path_pattern |-> key[2]] : key \in DOMAIN gateway.routes}
    ELSE {[method |-> routes[i].method, path_pattern |-> routes[i].path_pattern] :
              i \in 1..Len(routes)}

HasParam(route) ==
    \E k \in 1..Len(PathSegments[route.path_pattern]) :
        IsParam(PathSegments[route.path_pattern][k])

HandlerRuns(trace) == Cardinality({i \in 1..Len(trace) : trace[i] = "handler"})

\* C2: a request whose method and path match a registered pattern with a
\* parameter is never answered with 404, and exactly one handler is invoked
\* for it.
C2_ParamRouteDispatched ==
    (/\ Dispatched
     /\ \E route \in DispatchTable :
            HasParam(route) /\ RouteMatches(route, request.method, request.path))
    => /\ call.result.ok
       /\ call.result.response.status # 404
       /\ HandlerRuns(call.result.trace) = 1

\* C8: when no registered route matches the request, the answer is 404 with a
\* body of the form {"error": message}, and no middleware stage and no handler
\* ran.
C8_NotFoundImmediately ==
    (/\ Dispatched
     /\ \A route \in DispatchTable :
            ~RouteMatches(route, request.method, request.path))
    => /\ call.result.ok
       /\ call.result.response.status = 404
       /\ call.result.response.body.fmt = ErrorFmt
       /\ call.result.trace = <<>>

\* what C8 says, of handle_http_request alone (which holds of it)
C8_HttpRequestNotFound ==
    (/\ call.op = "handle_http_request"
     /\ \A route \in DispatchTable :
            ~RouteMatches(route, request.method, request.path))
    => /\ call.result.ok
       /\ call.result.response.status = 404
       /\ call.result.response.body.fmt = ErrorFmt
       /\ call.result.trace = <<>>

\* the failure of the handler reached the chain of handle_http_request
ChainFailed ==
    /\ call.op = "handle_http_request"
    /\ call.handler_fails
    /\ HandlerRuns(call.result.trace) > 0

\* C9: handle_http_request always returns a response and never an error; when
\* the chain fails, the response is a 500 with a body of the form
\* {"error": message}.
C9_DispatchNeverFails ==
    call.op = "handle_http_request" =>
        /\ call.result.ok
        /\ call.result.response.status \in {200, 404, 500}
        /\ ChainFailed =>
               /\ call.result.response.status = 500
               /\ call.result.response.body.fmt = ErrorFmt

\* the handler of a matched route failed behind the CORS stage and the
\* request was answered
C9_Witness ==
    /\ ChainFailed
    /\ call.result.trace = <<"cors", "handler">>
    /\ call.result.ok
    /\ call.result.response.status = 500

\* C10: when the handler, or the gateway forward_to_gateway forwards to,
\* returns an error, the response is a 500 whose body carries the fixed
\* message and not the text of the error.
C10_UpstreamErrorNotLeaked ==
    /\ ChainFailed =>
           /\ call.result.response.status = 500
           /\ call.result.response.body = Body(ErrorFmt, "Internal server error")
    /\ (call.op = "forward_to_gateway" /\ ~call.upstream.ok) =>
           /\ call.result.value.status = 500
           /\ call.result.value.body.fmt = ErrorFmt
           /\ call.result.value.body.arg = "Internal server error"
           /\ call.result.value.body.arg # call.upstream.error

----------------------------------------------------------------------------
(* Claims about the cross-origin stage                                       *)

\* origin ends in suffix, read off the characters: some text before it
EndsIn(origin, suffix) ==
    \E k \in 0..Len(origin) :
        /\ Len(origin) = k + Len(suffix)
        /\ \A i \in 1..Len(suffix) : origin[k + i] = suffix[i]

IsWildcardDomain(entry) == Len(entry) > 2 /\ entry[1] = "*" /\ entry[2] = "."

\* C11: under an allow-list of wildcard-domain entries "*.d", is_origin_allowed
\* answers true for an origin that ends in ".d" and false for every other
\* origin, such as the bare domain "d" or a text that ends in "d" without the
\* dot before it.
C11_WildcardDomainNeedsDot ==
    (/\ call.op = "is_origin_allowed"
     /\ \A i \in 1..Len(gateway.config.cors.allowed_origins) :
            IsWildcardDomain(gateway.config.cors.allowed_origins[i]))
    => (call.result <=>
            \E i \in 1..Len(gateway.config.cors.allowed_origins) :
                EndsIn(request.origin, Tail(gateway.config.cors.allowed_origins[i])))

\* the cross-origin stage of the server answered the request
StageRan ==
    /\ call.op = "handle_http_request"
    /\ Len(call.result.trace) > 0
    /\ call.result.trace[1] = "cors"

\* the allow-list allows the origin: some entry is "*", is the origin itself,
\* or is a wildcard domain "*.d" and the origin ends in ".d"
AllowListMatches(allowed_origins, origin) ==
    \E i \in 1..Len(allowed_origins) :
        \/ allowed_origins[i] = <<"*">>
        \/ allowed_origins[i] = origin
        \/ /\ IsWildcardDomain(allowed_origins[i])
           /\ EndsIn(origin, Tail(allowed_origins[i]))

\* the request carries an origin that the allow-list allows
OriginAllowed ==
    /\ request.origin # <<>>
    /\ AllowListMatches(gateway.config.cors.allowed_origins, request.origin)

PreflightHeaders ==
    {"access-control-allow-origin", "access-control-allow-methods",
     "access-control-allow-headers", "access-control-max-age"}
CredentialsHeader == "access-control-allow-credentials"
CorsHeaders == PreflightHeaders \cup {CredentialsHeader}

\* C12: a preflight (OPTIONS) request whose origin the allow-list allows is
\* answered by the stage itself: the continuation does not run, the body is
\* empty, the allow-origin (the origin), allow-methods, allow-headers and
\* max-age headers are set, and the allow-credentials header is set exactly
\* when allow_credentials is configured.
C12_PreflightAllowedShortCircuits ==
    (StageRan /\ request.method = "OPTIONS" /\ OriginAllowed) =>
        LET resp == call.result.response
        IN  /\ call.result.ok
            /\ call.result.trace = <<"cors">>
            /\ resp.body = EmptyBody
            /\ PreflightHeaders \subseteq DOMAIN resp.headers
            /\ DOMAIN resp.headers \subseteq CorsHeaders
            /\ resp.headers["access-control-allow-origin"] = request.origin
            /\ resp.headers["access-control-allow-methods"]
                   = "GET, POST, PUT, DELETE, OPTIONS"
            /\ resp.headers["access-control-allow-headers"]
                   = "Content-Type, Authorization"
            /\ resp.headers["access-control-max-age"] = "86400"
            /\ CredentialsHeader \in DOMAIN resp.headers
                   <=> gateway.config.cors.allow_credentials

\* an allowed preflight was answered under a configuration without
\* credentials, by a wildcard-domain entry
C12_Witness ==
    /\ StageRan /\ request.method = "OPTIONS" /\ OriginAllowed
    /\ ~gateway.config.cors.allow_credentials
    /\ gateway.config.cors.allowed_origins = << <<"*", ".", "e">> >>
    /\ DOMAIN call.result.response.headers = PreflightHeaders

\* C13 (as claimed): a preflight request whose origin the allow-list does not
\* allow, or that carries no origin, is forwarded to the continuation, whose
\* response is returned as it is.
C13_PreflightDisallowedForwarded ==
    (StageRan /\ request.method = "OPTIONS" /\ ~OriginAllowed) =>
        /\ HandlerRuns(call.result.trace) = 1
        /\ ~call.handler_fails =>
               call.result.response
                   = Response(200, ContentTypeJson, Body(RouteFmt, request.path))

\* C13 (amended): a preflight request whose origin the allow-list does not
\* allow, or that carries no origin, is not forwarded: the stage answers it
\* itself with status 200 and an empty body, and the continuation does not
\* run.
C13_PreflightDisallowedAnswered ==
    (StageRan /\ request.method = "OPTIONS" /\ ~OriginAllowed) =>
        /\ call.result.ok
        /\ call.result.trace = <<"cors">>
        /\ call.result.response.status = 200
        /\ call.result.response.body = EmptyBody

\* a preflight with an origin was answered under an allow-list that holds
\* entries but none for the origin
C13_Witness ==
    /\ StageRan /\ request.method = "OPTIONS" /\ ~OriginAllowed
    /\ request.origin # <<>>
    /\ gateway.config.cors.allowed_origins # <<>>
    /\ call.result.response = Response(200, NoHeaders, EmptyBody)

\* what C14 says of a request that is not a preflight, with `allowed` for
\* "the origin is not empty and the allow-list allows it"
OrdinaryRequestDecorated(allowed) ==
    (StageRan /\ request.method # "OPTIONS") =>
        /\ HandlerRuns(call.result.trace) = 1
        /\ ~call.handler_fails =>
               LET resp == call.result.response
                   own  == Response(200, ContentTypeJson,
                                    Body(RouteFmt, request.path))
               IN  /\ call.result.ok
                   /\ resp.status = own.status
                   /\ resp.body = own.body
                   /\ DOMAIN resp.headers \ CorsHeaders = DOMAIN own.headers
                   /\ \A h \in DOMAIN own.headers : resp.headers[h] = own.headers[h]
                   /\ DOMAIN resp.headers \cap CorsHeaders =
                          (IF allowed
                           THEN {"access-control-allow-origin"} ELSE {})
                          \cup (IF allowed /\ gateway.config.cors.allow_credentials
                                THEN {CredentialsHeader} ELSE {})
                   /\ allowed =>
                          resp.headers["access-control-allow-origin"]
                              = request.origin

\* C14: for a request that is not a preflight the stage runs the continuation
\* exactly once; the response it returns has the status, the body and the
\* other headers of the continuation's response, the allow-origin header (the
\* origin) exactly when the origin is not empty and the allow-list allows it,
\* and the allow-credentials header exactly when moreover allow_credentials
\* is configured.
C14_OrdinaryRequestDecorated == OrdinaryRequestDecorated(OriginAllowed)

\* what C14 says, with the verdict of is_origin_allowed in the place of the
\* allow-list (which holds of the stage)
C14_DecoratedByIsOriginAllowed ==
    OrdinaryRequestDecorated(
        /\ request.origin # <<>>
        /\ is_origin_allowed(gateway.config.cors, request.origin))

----------------------------------------------------------------------------
(* Claims about the build of the route table                                 *)

\* the handler name is a service part and an action part: exactly one dot
Dots(handler_name) == {i \in 1..Len(handler_name) : handler_name[i] = "."}
HasTwoParts(handler_name) == Cardinality(Dots(handler_name)) = 1

\* the definitions of ROUTES that survive the build, by position
Survivors == {i \in 1..Len(ROUTES) : HasTwoParts(ROUTES[i].handler_name)}
NthSurvivor(k) ==
    CHOOSE i \in Survivors : Cardinality({j \in Survivors : j < i}) = k - 1

\* the table holds the surviving definitions of ROUTES, all of them, in the
\* order of ROUTES
HoldsSurvivors(table) ==
    /\ Len(table) = Cardinality(Survivors)
    /\ \A k \in 1..Len(table) :
           LET route_info == ROUTES[NthSurvivor(k)]
           IN  /\ table[k].method = route_info.method
               /\ table[k].path_pattern = route_info.path
               /\ table[k].service_name \o <<".">> \o table[k].action_name
                      = route_info.handler_name

\* the operation that returned last has built the table from ROUTES
Built == call.op \in {"initialize_routes", "init", "run"}

\* C15: the build does not fail on a definition whose handler name is not
\* a service part and an action part: it drops the definition, and the table
\* holds the other definitions in the order of their registration.
C15_InvalidDroppedOrderKept ==
    Built =>
        /\ call.result \in {"Ok", "serving", "Invalid address"}
        /\ HoldsSurvivors(routes)

\* the table was built from a malformed definition registered before a valid
\* one, and holds the valid one alone
C15_Witness ==
    /\ Built
    /\ Len(ROUTES) = 2
    /\ ~HasTwoParts(ROUTES[1].handler_name)
    /\ HasTwoParts(ROUTES[2].handler_name)
    /\ Len(routes) = 1
    /\ routes[1].path_pattern = ROUTES[2].path

\* C16: every route of the table has a service name and an action name that
\* are not empty.
C16_ServiceAndActionNonEmpty ==
    \A i \in 1..Len(routes) :
        /\ routes[i].service_name # <<>>
        /\ routes[i].action_name # <<>>

\* C17: a build that leaves no valid route aborts the startup: neither server
\* serves with an empty table.
C17_EmptyTableAbortsStartup ==
    /\ service.serving => routes # <<>>
    /\ gateway.started => DOMAIN gateway.routes # {}

\* the table a lookup read is the table before any build (empty) or the table
\* a build leaves
SeesWholeTable(f) ==
    tasks.find[f].seen = <<>> \/ HoldsSurvivors(tasks.find[f].seen)

\* C18: whatever the interleaving of builds and lookups, the table a lookup
\* scans is the table as it was before the build or the table fully built,
\* never a part of it; and a lookup that waits for the table gets to scan it
\* and returns.
C18_LookupSeesWholeTable ==
    /\ [](\A f \in Finders : SeesWholeTable(f))
    /\ \A f \in Finders :
           (tasks.find[f].pc = "wait") ~> (tasks.find[f].pc = "idle")

\* a lookup has scanned the table, still empty, while a build had collected
\* one of two routes and not yet published them
C18_Witness ==
    /\ Cardinality(Survivors) = 2
    /\ \E f \in Finders : call.op = "find_route" /\ call.task = f
                              /\ tasks.find[f].seen = <<>>
    /\ \E b \in Builders : /\ tasks.build[b].pc = "collect"
                              /\ Len(tasks.build[b].local) = 1

\* C19: once the table has been built (the service is Initialized, or the
\* table holds a route), no call of init, run, start, stop or register_route
\* changes the table find_route reads.
C19_TableWrittenOnce ==
    [][(/\ service.state = "Initialized" \/ routes # <<>>
        /\ call'.op \in {"init", "run", "start", "stop", "register_route"})
       => routes' = routes]_vars

----------------------------------------------------------------------------
(* Claims about WebSocket connections                                        *)

\* the messages of a type among msgs, counted
CountOfType(msgs, type) ==
    Cardinality({k \in 1..Len(msgs) :
        /\ msgs[k].json
        /\ "type" \in DOMAIN msgs[k].value
        /\ msgs[k].value.type = JsonString(type)})

Pings(id) ==
    IF id \in DOMAIN ws.connections
    THEN CountOfType(ws.connections[id].received, "ping") ELSE 0

Pongs(id) ==
    IF id \in DOMAIN ws.connections
    THEN CountOfType(ws.connections[id].sent, "pong") ELSE 0

\* C20: a ping received on a connection is answered with a pong on that
\* connection: never more pongs than pings, and once a ping has been received
\* a pong is eventually sent.
C20_PingAnsweredByPong ==
    /\ [](\A id \in ConnectionIds : Pongs(id) <= Pings(id))
    /\ \A id \in ConnectionIds : (Pings(id) > 0) ~> (Pongs(id) > 0)

----------------------------------------------------------------------------
(* Claims about the messages of a connection                                 *)

\* handle_message has been called with the message received on the
\* connection of id, which was registered with its peer connected
HandledOn(id) ==
    /\ call.op = "handle_message"
    /\ call.id = id
    /\ id \in DOMAIN call.before
    /\ call.before[id].open

\* what has been written to the connection of id since the call
Replies(id) ==
    IF id \in DOMAIN ws.connections /\ id \in DOMAIN call.before
    THEN SubSeq(ws.connections[id].sent,
                Len(call.before[id].sent) + 1, Len(ws.connections[id].sent))
    ELSE <<>>

IsOfType(text, type) ==
    /\ text.json
    /\ "type" \in DOMAIN text.value
    /\ text.value.type = JsonString(type)

HasStringField(text, key) ==
    /\ text.json
    /\ key \in DOMAIN text.value
    /\ text.value[key].kind = "string"

WellFormedAction(text) ==
    /\ IsOfType(text, "action")
    /\ HasStringField(text, "id")
    /\ HasStringField(text, "action")
    /\ "params" \in DOMAIN text.value

Malformed(text) ==
    \/ ~text.json
    \/ IsOfType(text, "action") /\ ~WellFormedAction(text)

IsErrorReply(reply) ==
    /\ reply.json
    /\ "success" \in DOMAIN reply.value
    /\ reply.value.success = JsonBool(FALSE)
    /\ "error" \in DOMAIN reply.value

\* C22: a malformed message (no JSON, or an action message without a string
\* id, a string action or params) handled on a registered connection is
\* answered on that connection with one error reply, which carries the id of
\* the message when it has one; the connection stays as it was, registered
\* and open.
C22_MalformedAnsweredWithError ==
    \A id \in ConnectionIds :
        (HandledOn(id) /\ Malformed(request.text)) =>
            /\ id \in DOMAIN ws.connections
            /\ ws.connections[id].open
            /\ Len(Replies(id)) = 1
            /\ IsErrorReply(Replies(id)[1])
            /\ HasStringField(request.text, "id") =>
                   Replies(id)[1].value.id = request.text.value.id

\* C22, for the malformed action messages alone: these are answered as C22
\* says.
C22_InvalidActionAnsweredWithError ==
    \A id \in ConnectionIds :
        (HandledOn(id) /\ Malformed(request.text) /\ request.text.json) =>
            /\ id \in DOMAIN ws.connections
            /\ ws.connections[id].open
            /\ Len(Replies(id)) = 1
            /\ IsErrorReply(Replies(id)[1])
            /\ HasStringField(request.text, "id") =>
                   Replies(id)[1].value.id = request.text.value.id

C24_UnknownTypeIgnored ==
    (/\ call.op = "handle_message"
     /\ ~IsOfType(request.text, "ping")
     /\ ~IsOfType(request.text, "action"))
        => ws.connections = call.before

C24_Witness ==
    /\ HandledOn("c1")
    /\ request.text.json
    /\ "type" \notin DOMAIN request.text.value
    /\ "c2" \in DOMAIN ws.connections

----------------------------------------------------------------------------
(* Claims about the life of a connection                                     *)

Registered(id) == id \in DOMAIN ws.connections

\* no message has arrived on the connection of id
Idle(id) == Registered(id) /\ ws.connections[id].received = <<>>

\* the connection of id is live: registered, its peer connected
Live(connections, id) == id \in DOMAIN connections /\ connections[id].open

\* the tasks spawned for the connections of id have left their loops
LoopsExited(id) ==
    \A k \in 1..Len(ws.loops) :
        ws.loops[k].id = id => ws.loops[k].pc = "exited"

\* C21: a registered connection on which no message arrives does not stay
\* registered for ever: eventually its record is removed from the map, so
\* that a lookup by its id finds nothing.
C21_IdleConnectionRemoved ==
    \A id \in ConnectionIds : Idle(id) ~> ~Idle(id)

\* C26: registering a connection leaves the record of every connection that
\* was live in the map, with the socket it had.
C26_LiveRecordsKept ==
    call.op = "handle_connection" =>
        \A id \in ConnectionIds :
            Live(call.before, id) =>
                /\ Registered(id)
                /\ ws.connections[id].socket = call.before[id].socket

\* C27: a connection whose peer has disconnected is torn down: its record is
\* removed from the map and the loop of its task exits.
C27_ClosedConnectionRemoved ==
    \A id \in ConnectionIds :
        (Registered(id) /\ ~ws.connections[id].open)
            ~> (~Registered(id) /\ LoopsExited(id))

----------------------------------------------------------------------------
(* Claims about upgrade requests                                             *)

\* the letters of s without their case
Folded(s) ==
    [i \in 1..Len(s) |->
        IF s[i] \in {"W", "w"} THEN "w"
        ELSE IF s[i] \in {"S", "s"} THEN "s" ELSE s[i]]

\* the request carries an Upgrade header that names the WebSocket protocol
NamesWebSocket(req) ==
    /\ req.upgrade.some
    /\ req.upgrade.visible
    /\ \E i \in 1..Len(req.upgrade.value) :
           /\ i + 8 <= Len(req.upgrade.value)
           /\ \A j \in 1..9 : Folded(req.upgrade.value)[i + j - 1] = websocket[j]

\* C25: a request whose Upgrade header names the WebSocket protocol goes to
\* the handler of WebSocket requests, and once it is handled the map of
\* connections holds a record for it; any other request goes to the HTTP
\* handler and the map of connections holds no record.
C25_UpgradeRoutedAndRegistered ==
    call.op = "serve" =>
        IF NamesWebSocket(request)
        THEN /\ call.routed_to = "handle_websocket_request"
             /\ call.result.id \in DOMAIN ws.connections
        ELSE /\ call.routed_to = "handle_http_request"
             /\ DOMAIN ws.connections = {}

\* C25, for the routing alone: the request goes to the handler the claim
\* names, and is answered by it.
C25_UpgradeRouted ==
    call.op = "serve" =>
        IF NamesWebSocket(request)
        THEN /\ call.routed_to = "handle_websocket_request"
             /\ call.result.response.status = 501
        ELSE /\ call.routed_to = "handle_http_request"
             /\ call.result.response.status \in {200, 404, 500}
             /\ DOMAIN ws.connections = {}

----------------------------------------------------------------------------
(* Claims about the chain of stages                                          *)

\* the positions of the log at which something of a kind happened
Events(kind) == {i \in 1..Len(chain.log) : chain.log[i].event = kind}

\* the position of the k-th event of a kind
NthOf(kind, k) ==
    CHOOSE i \in Events(kind) :
        Cardinality({j \in Events(kind) : j < i}) = k - 1

\* the stage entered at position i returned without calling its continuation
ShortCircuited(i) ==
    /\ i \in Events("process")
    /\ i = Len(chain.log) \/ chain.log[i + 1].event # "next"

\* the steps agree with Next_run on the result of every chain
StepsAgreeWithNextRun ==
    chain.pc = "done" =>
        chain.result = Next_run(chain.middlewares, chain.handler, request,
                                chain.fails)

\* C28: the stages of a chain are entered in the order of the chain, each at
\* most once; the handler is called at most once, and only after every stage
\* of the chain has been entered and has called its continuation; with no
\* stage in the chain the handler is the first thing called.
C28_StagesInOrderHandlerLast ==
    chain.pc # "idle" =>
        /\ Cardinality(Events("process")) <= Len(chain.middlewares)
        /\ \A k \in 1..Cardinality(Events("process")) :
               chain.log[NthOf("process", k)].stage = chain.middlewares[k]
        /\ Cardinality(Events("handler")) <= 1
        /\ \A h \in Events("handler") :
               /\ Cardinality({i \in Events("process") : i < h})
                      = Len(chain.middlewares)
               /\ Cardinality({i \in Events("next") : i < h})
                      = Len(chain.middlewares)
        /\ (chain.middlewares = <<>> /\ chain.log # <<>>)
               => chain.log[1].event = "handler"

C28_Witness ==
    /\ chain.pc = "done"
    /\ Len(chain.middlewares) = 2
    /\ chain.middlewares[1] # chain.middlewares[2]
    /\ Events("handler") # {}
    /\ Cardinality(Events("return")) = 2

\* C29: when a stage returns without calling its continuation, nothing of the
\* chain is entered after it, neither a stage nor the handler: only stages
\* entered before it return; and with no stage before it, what the chain
\* returns to the dispatcher is what that stage returned.
C29_ShortCircuitEndsChain ==
    chain.pc # "idle" =>
        \A i \in 1..Len(chain.log) :
            ShortCircuited(i) =>
                /\ i < Len(chain.log)
                /\ \A j \in (i + 1)..Len(chain.log) :
                       chain.log[j].event = "return"
                /\ chain.pc # "run"
                /\ (chain.pc = "done" /\ i = 1) =>
                       call.result = chain.log[2].result

C29_Witness ==
    /\ chain.pc = "done"
    /\ Len(chain.middlewares) = 2
    /\ ShortCircuited(1)
    /\ call.op = "next_run"
    /\ call.result.response.status = 200

\* C30: when the continuation of a stage fails on a request that is no
\* preflight, every stage returns that failure as it got it, the chain
\* returns it, and the dispatcher answers 500 "Internal server error".
C30_ContinuationFailureHandedOn ==
    (/\ chain.pc = "done"
     /\ chain.middlewares # <<>>
     /\ request.method # "OPTIONS"
     /\ \E h \in Events("handler") : ~chain.log[h].result.ok)
        => /\ \A i \in Events("return") :
                  /\ ~chain.log[i].result.ok
                  /\ chain.log[i].result.error = UpstreamError
           /\ ~call.result.ok
           /\ call.result.error = UpstreamError
           /\ call.response.ok
           /\ call.response.response.status = 500
           /\ call.response.response.body
                  = Body(ErrorFmt, "Internal server error")

C30_Witness ==
    /\ chain.pc = "done"
    /\ Len(chain.middlewares) = 2
    /\ request.method = "GET"
    /\ request.origin # <<>>
    /\ \E h \in Events("handler") : ~chain.log[h].result.ok
    /\ call.response.response.status = 500

----------------------------------------------------------------------------
(* Claims about the locking of the connections                               *)

\* a task spawned for the connection of id is in its sleep, the guard held
LoopHoldsGuard(id) ==
    \E k \in 1..Len(ws.loops) :
        ws.loops[k].id = id /\ ws.loops[k].pc = "sleep"

\* C31: while the loop of a connection a is at work (it holds its guard) and
\* no loop of another connection b is, a message of b that is to be answered
\* can be handled and answered at once: the send on b does not wait for a.
C31_SendNotBlockedByOtherConnection ==
    \A a, b \in ConnectionIds :
        (/\ a # b
         /\ Registered(a)
         /\ Registered(b)
         /\ LoopHoldsGuard(a)
         /\ ~LoopHoldsGuard(b)
         /\ "text" \in DOMAIN request
         /\ IsOfType(request.text, "ping") \/ IsOfType(request.text, "action")
         /\ Len(ws.connections[b].sent) < MaxMessages)
            => ENABLED HandleMessage(b)

----------------------------------------------------------------------------
(* Claims about the state of the service                                     *)

\* C32: the running flag of the service is true exactly when its state is
\* Running, whatever init, start and stop calls have been made.
C32_RunningIffStateRunning ==
    service.running <=> service.state = "Running"

\* C32, in one direction: a service whose state is Running has the flag set.
C32_StateRunningIsRunning ==
    service.state = "Running" => service.running

----------------------------------------------------------------------------
(* Claims about the users of AuthService                                     *)

\* no two stored users have the same username, nor the same email
UsersDistinct ==
    \A i, j \in DOMAIN auth.users :
        i # j => /\ auth.users[i].username # auth.users[j].username
                 /\ auth.users[i].email # auth.users[j].email

\* each index maps the username, the email, of every stored user to its id
IndexesPointBack ==
    \A i \in DOMAIN auth.users :
        /\ auth.users[i].username \in DOMAIN auth.username_index
        /\ auth.username_index[auth.users[i].username] = i
        /\ auth.users[i].email \in DOMAIN auth.email_index
        /\ auth.email_index[auth.users[i].email] = i

\* a call made with a username or an email that was taken stores nothing,
\* and fails
TakenIsRefused ==
    \A r \in DOMAIN auth.register :
        auth.register[r].taken =>
            /\ auth.register[r].pc # "write"
            /\ auth.register[r].pc = "done" => ~auth.register[r].result.ok

\* C33: whatever the interleaving of register calls, no two stored users
\* share a username or an email, the indexes map the username and the email
\* of every stored user to its id, and a call for a taken username or email
\* fails and stores nothing.
C33_UsersUniqueAndIndexed ==
    /\ UsersDistinct
    /\ IndexesPointBack
    /\ TakenIsRefused

\* C33, for the calls made when the username or the email is in its index:
\* these fail and store nothing.
C33_TakenAtCallIsRefused == TakenIsRefused

----------------------------------------------------------------------------
(* Claims about the profiles of ProfileService                               *)

\* the profiles stored for a user
ProfilesOf(user_id) ==
    {id \in DOMAIN profile.profiles : profile.profiles[id].user_id = user_id}

AtMostOneProfile ==
    \A user \in ProfileUsers : Cardinality(ProfilesOf(user.id)) <= 1

\* every entry of the index points to a stored profile of its user
IndexPointsToProfile ==
    \A user_id \in DOMAIN profile.user_profile_index :
        /\ profile.user_profile_index[user_id] \in DOMAIN profile.profiles
        /\ profile.profiles[profile.user_profile_index[user_id]].user_id
               = user_id

\* create_profile succeeds for a user without an index entry and for no
\* other, and a call that fails changes nothing
CreateOncePerUser ==
    call.op = "create_profile" =>
        /\ call.result.ok <=>
               call.user_id \notin DOMAIN call.before.user_profile_index
        /\ ~call.result.ok => call.after = call.before

\* C34: whatever the interleaving of create_profile, get_profile,
\* update_profile and delete_profile, every user has at most one stored
\* profile, every index entry points to a stored profile of its user, and of
\* the create_profile calls for one user one succeeds and the others fail
\* and change nothing.
C34_OneProfilePerUser ==
    /\ AtMostOneProfile
    /\ IndexPointsToProfile
    /\ CreateOncePerUser

\* C34, without the count of stored profiles: the index entries point to
\* stored profiles of their users, and create_profile succeeds once per
\* indexed user.
C34_IndexSound ==
    /\ IndexPointsToProfile
    /\ CreateOncePerUser

----------------------------------------------------------------------------
(* The indexes the lookup applies to the two vectors of a RouteEntry       *)

\* the indexes the segment loop of find_route (service.rs:161-167) applies to
\* route.is_parameter and route.path_segments, from i on: the loop stops at
\* the first mismatch, and an index outside a vector panics there
RECURSIVE find_route_indexes(_, _, _)
find_route_indexes(route, path_segments, i) ==
    IF i > Len(path_segments) THEN {}
    ELSE {i} \cup
         (IF /\ i \in DOMAIN route.is_parameter
             /\ i \in DOMAIN route.path_segments
             /\ ~segment_mismatch(route, path_segments, i)
          THEN find_route_indexes(route, path_segments, i + 1)
          ELSE {})

\* the indexes extract_parameters (service.rs:133-139) applies to
\* route.path_segments: those of the path's segments that are inside
\* is_parameter and flagged there
extract_parameters_indexes(route, path) ==
    {i \in 1..Len(split_path(path)) :
        i <= Len(route.is_parameter) /\ route.is_parameter[i]}

\* the flags of a RouteEntry are those of its segments
FlagsOfSegments(route) ==
    /\ Len(route.is_parameter) = Len(route.path_segments)
    /\ \A i \in 1..Len(route.path_segments) :
           route.is_parameter[i] <=> starts_with(route.path_segments[i], <<":">>)

\* C35: every RouteEntry of the table initialize_routes built has
\* is_parameter and path_segments of equal length, with is_parameter[i] true
\* exactly when path_segments[i] starts with ':'; and for the inbound path,
\* every index find_route applies to the two vectors of an entry it compares
\* (one that passes its method test and its count test, service.rs:151-158),
\* and every index extract_parameters applies to path_segments of any entry,
\* is inside the vector.
C35_FlagsMatchSegmentsIndexesInBounds ==
    \A r \in 1..Len(routes) :
        LET route == routes[r]
        IN  /\ FlagsOfSegments(route)
            /\ (/\ ~method_mismatch(route, request.method)
                /\ ~count_mismatch(route, split_path(request.path))) =>
                   find_route_indexes(route, split_path(request.path), 1)
                       \subseteq (DOMAIN route.is_parameter
                                      \cap DOMAIN route.path_segments)
            /\ extract_parameters_indexes(route, request.path)
                   \subseteq DOMAIN route.path_segments

\* find_route matched an entry with a parameter segment after a literal one,
\* and the table also holds an entry with fewer segments than the path
C35_Witness ==
    /\ call.op = "find_route"
    /\ call.result.found
    /\ \E i, j \in 1..Len(call.result.route.is_parameter) :
           call.result.route.is_parameter[i] /\ ~call.result.route.is_parameter[j]
    /\ call.result.params # EmptyMap
    /\ \E r \in 1..Len(routes) :
           Len(routes[r].path_segments) < Len(split_path(request.path))

====
